---------------------------- MODULE Spec2Model ----------------------------
(***************************************************************************)
(* SmartGSE: the data validation and calculation core.                     *)
(*                                                                         *)
(*   core/models.py        EmissionData, SustainabilityMetrics,            *)
(*                         CarbonTaxData                                   *)
(*   data/processors.py    DataImporter, DataValidator                     *)
(*   utils/calculations.py EmissionCalculator, SustainabilityAnalyzer      *)
(*                                                                         *)
(* Numbers are exact: a float of the program is an integer or a rational   *)
(* [n, d] here (IEEE NaN and rounding error of the binary representation   *)
(* are not modelled).  Dates are day ordinals.  A text on which the code   *)
(* works character by character (lower(), strip(), "x in y") is a tuple    *)
(* of one-character strings; a text that is only stored or compared is a   *)
(* string.  An Optional number is [isNone, v].                             *)
(***************************************************************************)
EXTENDS Integers, Sequences, FiniteSets, TLC

VARIABLES
    emissions,   \* the List[EmissionData] in memory
    metrics,     \* the List[SustainabilityMetrics] in memory
    tax,         \* the CarbonTaxData in memory
    df,          \* the DataFrame handed to the importer: [columns, rows]
    data_type,   \* import_from_csv's data_type argument
    row_i,       \* position of df.iterrows() in the importer's loop
    stdout,      \* what the importer has printed so far
    result       \* outcome of the last call: [op, raised, ...]

vars == <<emissions, metrics, tax, df, data_type, row_i, stdout, result>>

-----------------------------------------------------------------------------
(* Bounds of the model *)

\* longest list of records built by direct construction
MaxRecords == 2

-----------------------------------------------------------------------------
(* Exact arithmetic *)

Abs(x) == IF x < 0 THEN -x ELSE x

RECURSIVE Gcd(_, _)
Gcd(a, b) == IF b = 0 THEN a ELSE Gcd(b, a % b)

\* the rational n/d (d /= 0), in lowest terms with a positive denominator
Rat(n, d) ==
    LET s == IF d < 0 THEN -1 ELSE 1
        g == Gcd(Abs(n), Abs(d))
    IN  [n |-> (s * n) \div g, d |-> (s * d) \div g]

RatInt(i)    == [n |-> i, d |-> 1]
RatAdd(a, b) == Rat(a.n * b.d + b.n * a.d, a.d * b.d)
RatSub(a, b) == Rat(a.n * b.d - b.n * a.d, a.d * b.d)
RatMul(a, b) == Rat(a.n * b.n, a.d * b.d)
RatDiv(a, b) == Rat(a.n * b.d, a.d * b.n)
RatLt(a, b)  == a.n * b.d < b.n * a.d
RatLe(a, b)  == a.n * b.d <= b.n * a.d
RatAbs(a)    == [n |-> Abs(a.n), d |-> a.d]
RatMin(a, b) == IF RatLe(a, b) THEN a ELSE b

-----------------------------------------------------------------------------
(* Optional values *)

\* Optional[float]: None, or a rational
NoneNum == [isNone |-> TRUE, v |-> [n |-> 0, d |-> 1]]

\* Optional[str]: None, or a text
NoneStr == [isNone |-> TRUE, v |-> <<>>]

Some(x) == [isNone |-> FALSE, v |-> x]

\* Python's "not x" of an Optional[str]: None and "" are falsy
Falsy(x) == x.isNone \/ x.v = <<>>

NoResult == [op |-> "none", raised |-> "none"]

-----------------------------------------------------------------------------
(* core/models.py: enumerations, in declaration order *)

EmissionScope == <<"scope_1", "scope_2", "scope_3">>

SustainabilityCategory == <<"environmental", "social", "governance">>

-----------------------------------------------------------------------------
(* core/models.py: EmissionData *)

\* the dataclass's fields, from the constructor's arguments
EmissionData(a) ==
    [source                 |-> a.source,
     scope                  |-> a.scope,
     co2_equivalent_tonnes  |-> a.co2_equivalent_tonnes,
     reporting_period_start |-> a.reporting_period_start,
     reporting_period_end   |-> a.reporting_period_end,
     activity_data          |-> a.activity_data,
     activity_unit          |-> a.activity_unit,
     emission_factor        |-> a.emission_factor,
     location               |-> a.location,
     verified               |-> a.verified]

\* a mutant: the constructor checks nothing
PostInitNoChecks(self) == "none"

\* a mutant: the date check is strict, start = end is refused
PostInitStrictDates(self) ==
    IF self.reporting_period_start >= self.reporting_period_end THEN "ValueError"
    ELSE IF self.co2_equivalent_tonnes < 0 THEN "ValueError"
    ELSE IF self.activity_data < 0 THEN "ValueError"
    ELSE "none"

\* __post_init__: the exception it raises, "none" when it returns
PostInit(self) ==
    IF self.reporting_period_start > self.reporting_period_end THEN "ValueError"
    ELSE IF self.co2_equivalent_tonnes < 0 THEN "ValueError"
    ELSE IF self.activity_data < 0 THEN "ValueError"
    ELSE "none"

\* EmissionData(...) called directly: the record joins the list only when
\* __post_init__ returns; a raise leaves no record behind
NewEmissionData(a) ==
    /\ Len(emissions) < MaxRecords
    /\ LET self == EmissionData(a)
           exc  == PostInit(self)
       IN  /\ emissions' = IF exc = "none" THEN Append(emissions, self) ELSE emissions
           /\ result' = [op |-> "EmissionData", raised |-> exc, args |-> a]
    /\ UNCHANGED <<metrics, tax, df, data_type, row_i, stdout>>

-----------------------------------------------------------------------------
(* Specification of the domain model: records are constructed directly *)

NoTax == [emissions_covered |-> <<>>, tax_rate_per_tonne |-> 0,
          exemptions |-> <<>>, credits |-> <<>>, penalties |-> <<>>]

NoFrame == [columns |-> {}, rows |-> <<>>]

\* constructor arguments tried: each checked field below, at and above its limit
ModelArgs ==
    [source                 : {"electricity"},
     scope                  : {"scope_2"},
     co2_equivalent_tonnes  : {-10, 0, 125},
     reporting_period_start : {1, 2},
     reporting_period_end   : {1, 2},
     activity_data          : {-1, 0, 300},
     activity_unit          : {<<"k", "W", "h">>},
     emission_factor        : {-1, 1},
     location               : {NoneStr},
     verified               : {FALSE}]

InitModel ==
    /\ emissions = <<>>
    /\ metrics = <<>>
    /\ tax = NoTax
    /\ df = NoFrame
    /\ data_type = "none"
    /\ row_i = 0
    /\ stdout = <<>>
    /\ result = NoResult

NextModel == \E a \in ModelArgs : NewEmissionData(a)

SpecModel == InitModel /\ [][NextModel]_vars

-----------------------------------------------------------------------------
(* C1: constructing an EmissionData raises ValueError and leaves no record *)
(* behind when start > end or co2e < 0 or activity_data < 0; it succeeds   *)
(* and the record exists when start <= end (start = end included),         *)
(* co2e >= 0 and activity_data >= 0.                                       *)

C1_ArgsRefused(a) ==
    \/ a.reporting_period_start > a.reporting_period_end
    \/ a.co2_equivalent_tonnes < 0
    \/ a.activity_data < 0

C1_ArgsAccepted(a) ==
    /\ a.reporting_period_start <= a.reporting_period_end
    /\ a.co2_equivalent_tonnes >= 0
    /\ a.activity_data >= 0

C1_ConstructionStep ==
    (result'.op = "EmissionData" /\ Len(emissions) < MaxRecords) =>
        LET a == result'.args IN
        /\ C1_ArgsRefused(a) =>
               result'.raised = "ValueError" /\ emissions' = emissions
        /\ C1_ArgsAccepted(a) =>
               /\ result'.raised = "none"
               /\ Len(emissions') = Len(emissions) + 1
               /\ SubSeq(emissions', 1, Len(emissions)) = emissions
               /\ LET e == emissions'[Len(emissions')] IN
                  /\ e.co2_equivalent_tonnes = a.co2_equivalent_tonnes
                  /\ e.activity_data = a.activity_data
                  /\ e.reporting_period_start = a.reporting_period_start
                  /\ e.reporting_period_end = a.reporting_period_end

C1_ConstructionValidation == [][C1_ConstructionStep]_vars

\* a record with start = end exists, and the last call was refused for start > end
C1_Witness ==
    /\ Len(emissions) = 1
    /\ emissions[1].reporting_period_start = emissions[1].reporting_period_end
    /\ emissions[1].co2_equivalent_tonnes = 0
    /\ result.op = "EmissionData"
    /\ result.raised = "ValueError"
    /\ result.args.reporting_period_start > result.args.reporting_period_end
    /\ result.args.co2_equivalent_tonnes >= 0
    /\ result.args.activity_data >= 0

-----------------------------------------------------------------------------
(* core/models.py: CarbonTaxData *)

\* sum(d.values()) of a dict d: name -> amount
RECURSIVE SumValues(_)
SumValues(d) ==
    IF DOMAIN d = {} THEN 0
    ELSE LET k == CHOOSE x \in DOMAIN d : TRUE
         IN  d[k] + SumValues([x \in DOMAIN d \ {k} |-> d[x]])

\* sum(emission.co2_equivalent_tonnes for emission in es)
RECURSIVE TotalCo2e(_)
TotalCo2e(es) ==
    IF es = <<>> THEN 0
    ELSE Head(es).co2_equivalent_tonnes + TotalCo2e(Tail(es))

total_emissions_tonnes(self) == TotalCo2e(self.emissions_covered)

gross_tax_liability(self) == total_emissions_tonnes(self) * self.tax_rate_per_tonne

total_exemptions(self) == SumValues(self.exemptions)

total_credits(self) == SumValues(self.credits)

total_penalties(self) == SumValues(self.penalties)


\* a mutant: the liability is computed at the first read and kept
NetTaxLiabilityCached(self) ==
    IF result.op = "net_tax_liability" THEN result.value
    ELSE gross_tax_liability(self) - total_exemptions(self)
             - total_credits(self) + total_penalties(self)

\* a mutant: credits are added instead of subtracted
NetTaxLiabilityCreditsAdded(self) ==
    gross_tax_liability(self) - total_exemptions(self)
        + total_credits(self) + total_penalties(self)

net_tax_liability(self) ==
    gross_tax_liability(self) - total_exemptions(self)
        - total_credits(self) + total_penalties(self)

\* reading a derived property of the CarbonTaxData in memory
\* reading a property of the CarbonTaxData: the result keeps the object as
\* it is at the read
ReadTotalEmissions ==
    /\ result' = [op |-> "total_emissions_tonnes", raised |-> "none", self |-> tax,
                  value |-> total_emissions_tonnes(tax)]
    /\ UNCHANGED <<emissions, metrics, tax, df, data_type, row_i, stdout>>

ReadGrossTaxLiability ==
    /\ result' = [op |-> "gross_tax_liability", raised |-> "none", self |-> tax,
                  value |-> gross_tax_liability(tax)]
    /\ UNCHANGED <<emissions, metrics, tax, df, data_type, row_i, stdout>>

ReadNetTaxLiability ==
    /\ result' = [op |-> "net_tax_liability", raised |-> "none", self |-> tax,
                  value |-> net_tax_liability(tax)]
    /\ UNCHANGED <<emissions, metrics, tax, df, data_type, row_i, stdout>>

-----------------------------------------------------------------------------
(* Specification of the carbon tax computation *)

\* longest list of covered emission records
MaxCovered == 2

\* all sequences over S of length at most n
SeqsUpTo(S, n) == UNION {[1..k -> S] : k \in 0..n}

\* the covered records differ in their co2e only
TaxEmissions ==
    {EmissionData([source |-> "electricity", scope |-> "scope_2",
                   co2_equivalent_tonnes |-> c,
                   reporting_period_start |-> 1, reporting_period_end |-> 2,
                   activity_data |-> 300, activity_unit |-> <<"k", "W", "h">>,
                   emission_factor |-> 1, location |-> NoneStr,
                   verified |-> FALSE]) : c \in {0, 50, 100}}

TaxInputs ==
    [emissions_covered  : SeqsUpTo(TaxEmissions, MaxCovered),
     tax_rate_per_tonne : {0, 25},
     exemptions         : {<<>>, [renewable_credit |-> 500],
                           [renewable_credit |-> 500, small_emitter |-> 20]},
     credits            : {<<>>, [offset_purchases |-> 300]},
     penalties          : {<<>>, [late_filing |-> 100]}]

InitTax ==
    /\ emissions = <<>>
    /\ metrics = <<>>
    /\ tax \in TaxInputs
    /\ df = NoFrame
    /\ data_type = "none"
    /\ row_i = 0
    /\ stdout = <<>>
    /\ result = NoResult

NextTax ==
    \/ ReadTotalEmissions
    \/ ReadGrossTaxLiability
    \/ ReadNetTaxLiability

SpecTax == InitTax /\ [][NextTax]_vars

-----------------------------------------------------------------------------
(* C2: for every CarbonTaxData, total_emissions_tonnes is the sum of the   *)
(* covered records' co2e, gross_tax_liability is total * rate, and         *)
(* net_tax_liability is gross - sum(exemptions) - sum(credits) +           *)
(* sum(penalties), exactly.                                                *)

\* the sum of f over the indices of a list, counted from the last one down
RECURSIVE C2_SumTo(_, _)
C2_SumTo(es, k) ==
    IF k = 0 THEN 0 ELSE es[k].co2_equivalent_tonnes + C2_SumTo(es, k - 1)

\* the sum of a name -> amount map, taken name by name over all names used
C2_Amount(d, k) == IF k \in DOMAIN d THEN d[k] ELSE 0

C2_MapSum(d) ==
    C2_Amount(d, "renewable_credit") + C2_Amount(d, "small_emitter")
        + C2_Amount(d, "offset_purchases") + C2_Amount(d, "late_filing")

C2_TaxLiability ==
    LET total == C2_SumTo(tax.emissions_covered, Len(tax.emissions_covered))
        gross == total * tax.tax_rate_per_tonne
    IN  /\ result.op = "total_emissions_tonnes" => result.value = total
        /\ result.op = "gross_tax_liability" => result.value = gross
        /\ result.op = "net_tax_liability" =>
               result.value + C2_MapSum(tax.exemptions) + C2_MapSum(tax.credits)
                   = gross + C2_MapSum(tax.penalties)

\* 150 tonnes at rate 25, exemptions 500, credits 300, penalties 100: net 3050
C2_Witness ==
    /\ total_emissions_tonnes(tax) = 150
    /\ tax.tax_rate_per_tonne = 25
    /\ tax.exemptions = [renewable_credit |-> 500]
    /\ tax.credits = [offset_purchases |-> 300]
    /\ tax.penalties = [late_filing |-> 100]
    /\ result.op = "net_tax_liability"
    /\ result.value = 3050

-----------------------------------------------------------------------------
(* core/models.py: SustainabilityMetrics *)

\* metric_value: Union[float, int, str]
NumValue(r)  == [kind |-> "num", num |-> r, text |-> <<>>]
TextValue(t) == [kind |-> "str", num |-> [n |-> 0, d |-> 1], text |-> t]

\* a / b on floats: ZeroDivisionError when b = 0
FloatDiv(a, b) ==
    IF b.n = 0 THEN [raised |-> "ZeroDivisionError", v |-> RatInt(0)]
    ELSE [raised |-> "none", v |-> RatDiv(a, b)]

\* a mutant: the ZeroDivisionError of a zero target is not caught
ProgressUncaught(self) ==
    IF self.target_value.isNone \/ self.metric_value.kind # "num"
    THEN [raised |-> "none", value |-> NoneNum]
    ELSE LET q == FloatDiv(self.metric_value.num, self.target_value.v)
         IN  IF q.raised # "none"
             THEN [raised |-> q.raised, value |-> NoneNum]
             ELSE [raised |-> "none", value |-> Some(RatMul(q.v, RatInt(100)))]

\* the property progress_to_target, as a call: what it raises and returns
ProgressToTargetCall(self) ==
    IF self.target_value.isNone \/ self.metric_value.kind # "num"
    THEN [raised |-> "none", value |-> NoneNum]
    ELSE LET q == FloatDiv(self.metric_value.num, self.target_value.v)
         IN  IF q.raised \in {"ValueError", "ZeroDivisionError"}
             THEN [raised |-> "none", value |-> NoneNum]
             ELSE [raised |-> q.raised, value |-> Some(RatMul(q.v, RatInt(100)))]

progress_to_target(self) == ProgressToTargetCall(self).value

\* reading metrics[i].progress_to_target
ReadProgressToTarget(i) ==
    /\ i \in 1..Len(metrics)
    /\ LET out == ProgressToTargetCall(metrics[i])
       IN  result' = [op |-> "progress_to_target", raised |-> out.raised,
                      index |-> i, value |-> out.value]
    /\ UNCHANGED <<emissions, metrics, tax, df, data_type, row_i, stdout>>

-----------------------------------------------------------------------------
(* utils/calculations.py: SustainabilityAnalyzer.calculate_esg_score *)

\* round(x, 1): the nearest multiple of 1/10, an exact tie to the even one
Round1(x) ==
    LET t == x.n * 10
        q == t \div x.d
        r == t % x.d
    IN  IF 2 * r < x.d THEN Rat(q, 10)
        ELSE IF 2 * r > x.d THEN Rat(q + 1, 10)
        ELSE IF q % 2 = 0 THEN Rat(q, 10) ELSE Rat(q + 1, 10)

\* [m for m in ms if m.category.value == category]
CategoryMetrics(ms, category) == SelectSeq(ms, LAMBDA m : m.category = category)

\* the loop over category_metrics: [total_weight, weighted_score] after it
RECURSIVE WeighMetrics(_, _)
WeighMetrics(ms, acc) ==
    IF ms = <<>> THEN acc
    ELSE LET metric == Head(ms)
             weight == IF metric.verified THEN RatInt(1) ELSE Rat(1, 2)
             p      == progress_to_target(metric)
             score  == IF ~p.isNone THEN RatMin(p.v, RatInt(100)) ELSE RatInt(50)
         IN  WeighMetrics(Tail(ms),
                 [total_weight   |-> RatAdd(acc.total_weight, weight),
                  weighted_score |-> RatAdd(acc.weighted_score, RatMul(score, weight))])

\* a mutant: every metric weighs the same, verified or not
CategoryScoreUnweighted(ms, category) ==
    LET category_metrics == CategoryMetrics(ms, category)
        acc == WeighMetrics([i \in 1..Len(category_metrics) |->
                                [category_metrics[i] EXCEPT !.verified = TRUE]],
                   [total_weight |-> RatInt(0), weighted_score |-> RatInt(0)])
    IN  IF category_metrics = <<>> THEN RatInt(0)
        ELSE Round1(RatDiv(acc.weighted_score, acc.total_weight))

\* category_scores[category]
CategoryScore(ms, category) ==
    LET category_metrics == CategoryMetrics(ms, category)
        acc == WeighMetrics(category_metrics,
                   [total_weight |-> RatInt(0), weighted_score |-> RatInt(0)])
    IN  IF category_metrics = <<>> THEN RatInt(0)
        ELSE Round1(IF RatLt(RatInt(0), acc.total_weight)
                    THEN RatDiv(acc.weighted_score, acc.total_weight)
                    ELSE RatInt(0))

calculate_esg_score(ms) ==
    LET environmental == CategoryScore(ms, "environmental")
        social        == CategoryScore(ms, "social")
        governance    == CategoryScore(ms, "governance")
        overall_score == RatDiv(RatAdd(RatAdd(environmental, social), governance),
                                RatInt(3))
    IN  [environmental |-> environmental, social |-> social,
         governance |-> governance, overall |-> Round1(overall_score)]

CalculateEsgScore ==
    /\ result' = [op |-> "calculate_esg_score", raised |-> "none",
                  value |-> calculate_esg_score(metrics)]
    /\ UNCHANGED <<emissions, metrics, tax, df, data_type, row_i, stdout>>

-----------------------------------------------------------------------------
(* Specification of the analyzer: a list of metrics, and the calls on it *)

\* longest list of metrics handed to the analyzer
MaxMetrics == 2

AnalyzerMetrics ==
    [category               : {"environmental", "social", "governance"},
     metric_name            : {<<"E">>},
     metric_value           : {TextValue(<<"H", "i", "g", "h">>), NumValue(Rat(5, 2)), NumValue(Rat(1, 2))},
     metric_unit            : {<<"u">>},
     reporting_period_start : {1},
     reporting_period_end   : {2},
     target_value           : {NoneNum, Some(RatInt(0)), Some(RatInt(2))},
     description            : {NoneStr},
     verified               : BOOLEAN]

InitAnalyzer ==
    /\ emissions = <<>>
    /\ metrics \in SeqsUpTo(AnalyzerMetrics, MaxMetrics)
    /\ tax = NoTax
    /\ df = NoFrame
    /\ data_type = "none"
    /\ row_i = 0
    /\ stdout = <<>>
    /\ result = NoResult

NextAnalyzer ==
    \/ \E i \in 1..MaxMetrics : ReadProgressToTarget(i)
    \/ CalculateEsgScore

SpecAnalyzer == InitAnalyzer /\ [][NextAnalyzer]_vars

-----------------------------------------------------------------------------
(* C4: progress_to_target is (metric_value / target_value) * 100 when the  *)
(* value is numeric and the target is present and not zero; in every other *)
(* case (no target, target 0, textual value) it is None; reading it never  *)
(* raises.                                                                 *)

C4_ProgressToTarget ==
    result.op = "progress_to_target" =>
        LET m == metrics[result.index]
            v == m.metric_value.num
            t == m.target_value.v
            defined == /\ m.metric_value.kind = "num"
                       /\ ~m.target_value.isNone
                       /\ t.n # 0
        IN  /\ result.raised = "none"
            /\ defined =>
                   /\ ~result.value.isNone
                   \* value / 100 = v / t, multiplied out
                   /\ result.value.v.n * v.d * t.n = 100 * v.n * t.d * result.value.v.d
            /\ ~defined => result.value.isNone

\* 2.5 against a target of 2.0 reads 125; the list also holds a metric whose target is 0
C4_Witness ==
    /\ result.op = "progress_to_target"
    /\ metrics[result.index].metric_value = NumValue(Rat(5, 2))
    /\ metrics[result.index].target_value = Some(RatInt(2))
    /\ result.value = Some(RatInt(125))
    /\ \E j \in 1..Len(metrics) :
           /\ metrics[j].metric_value.kind = "num"
           /\ metrics[j].target_value = Some(RatInt(0))

-----------------------------------------------------------------------------
(* C10: calculate_esg_score.  Per category, the score is the weighted      *)
(* average of the metrics' scores (weight 1.0 if verified else 0.5; score  *)
(* min(progress, 100), or 50 when progress is None), 0 for a category      *)
(* without metrics; overall is the unweighted mean of the three category   *)
(* scores.  As claimed the values are the exact quotients; the code rounds *)
(* each category score, and the mean of the rounded scores, to 1 decimal.  *)

\* a metric's score, from its fields
C10_Score(m) ==
    IF /\ m.metric_value.kind = "num"
       /\ ~m.target_value.isNone
       /\ m.target_value.v.n # 0
    THEN LET p == Rat(100 * m.metric_value.num.n * m.target_value.v.d,
                      m.metric_value.num.d * m.target_value.v.n)
         IN  IF RatLt(RatInt(100), p) THEN RatInt(100) ELSE p
    ELSE RatInt(50)

\* twice the weight: 2 if verified, 1 if not
C10_Weight2(m) == IF m.verified THEN 2 ELSE 1

C10_Members(c) == {i \in 1..Len(metrics) : metrics[i].category = c}

RECURSIVE C10_WeightSum(_)
C10_WeightSum(I) ==
    IF I = {} THEN 0
    ELSE LET i == CHOOSE x \in I : TRUE
         IN  C10_Weight2(metrics[i]) + C10_WeightSum(I \ {i})

RECURSIVE C10_ScoreSum(_)
C10_ScoreSum(I) ==
    IF I = {} THEN RatInt(0)
    ELSE LET i == CHOOSE x \in I : TRUE
         IN  RatAdd(RatMul(RatInt(C10_Weight2(metrics[i])), C10_Score(metrics[i])),
                    C10_ScoreSum(I \ {i}))

\* the weighted average of category c (which has a metric)
C10_Average(c) ==
    RatDiv(C10_ScoreSum(C10_Members(c)), RatInt(C10_WeightSum(C10_Members(c))))

C10_Categories == {"environmental", "social", "governance"}

\* x is y rounded to one decimal: a multiple of 1/10 at most 1/20 away
C10_IsRounded(x, y) ==
    /\ 10 % x.d = 0
    /\ RatLe(RatAbs(RatSub(x, y)), Rat(1, 20))

\* the claim as stated: exact quotients
C10_ExactScores ==
    result.op = "calculate_esg_score" =>
        LET s == result.value IN
        /\ \A c \in C10_Categories :
               s[c] = IF C10_Members(c) = {} THEN RatInt(0) ELSE C10_Average(c)
        /\ s["overall"] = RatDiv(RatAdd(RatAdd(s["environmental"], s["social"]),
                                        s["governance"]), RatInt(3))

\* the claim as amended: the same quotients, each rounded to one decimal
C10_RoundedScores ==
    result.op = "calculate_esg_score" =>
        LET s == result.value IN
        /\ \A c \in C10_Categories :
               IF C10_Members(c) = {} THEN s[c] = RatInt(0)
               ELSE C10_IsRounded(s[c], C10_Average(c))
        /\ C10_IsRounded(s["overall"],
               RatDiv(RatAdd(RatAdd(s["environmental"], s["social"]),
                             s["governance"]), RatInt(3)))

\* a verified and an unverified metric in one category, whose weighted
\* average is not a multiple of 1/10, and a category without metrics
C10_Witness ==
    /\ result.op = "calculate_esg_score"
    /\ \E c \in C10_Categories :
           /\ \E i, j \in C10_Members(c) : metrics[i].verified /\ ~metrics[j].verified
           /\ result.value[c] # C10_Average(c)
    /\ \E c \in C10_Categories : C10_Members(c) = {} /\ result.value[c] = RatInt(0)
    /\ RatLt(RatInt(0), result.value["overall"])

-----------------------------------------------------------------------------
(* data/processors.py: DataValidator.validate_emissions_data *)

\* the validation_results dict
Report(total, valid, errors, warnings, score) ==
    [total_records |-> total, valid_records |-> valid, errors |-> errors,
     warnings |-> warnings, data_quality_score |-> score]

\* the issues of record i (counted from 1 as in the messages), in the code's order
EmissionRecordIssues(emission, i) ==
    (IF emission.co2_equivalent_tonnes <= 0
        THEN <<[record |-> i, issue |-> "CO2e must be positive"]>> ELSE <<>>)
    \o (IF emission.activity_data <= 0
        THEN <<[record |-> i, issue |-> "Activity data must be positive"]>> ELSE <<>>)
    \o (IF emission.emission_factor <= 0
        THEN <<[record |-> i, issue |-> "Emission factor must be positive"]>> ELSE <<>>)
    \o (IF emission.reporting_period_start >= emission.reporting_period_end
        THEN <<[record |-> i, issue |-> "Start date must be before end date"]>> ELSE <<>>)

\* abs(co2e - expected) / expected, with expected = activity_data * emission_factor
RelativeDeviation(emission) ==
    LET expected_co2e == emission.activity_data * emission.emission_factor
    IN  FloatDiv(RatInt(Abs(emission.co2_equivalent_tonnes - expected_co2e)),
                 RatInt(expected_co2e))

\* the warnings of record i, given the quotient of the consistency check
EmissionRecordWarnings(emission, i, deviation) ==
    (IF RatLt(Rat(5, 100), deviation)
        THEN <<[record |-> i, issue |-> "CO2e calculation may be inconsistent"]>> ELSE <<>>)
    \o (IF Falsy(emission.location)
        THEN <<[record |-> i, issue |-> "Missing location information"]>> ELSE <<>>)
    \o (IF ~emission.verified
        THEN <<[record |-> i, issue |-> "Data not verified"]>> ELSE <<>>)

\* the loop "for i, emission in enumerate(emissions)" from record i on;
\* acc is [valid_count, errors, warnings]; an exception ends the loop
RECURSIVE ValidateEmissionsLoop(_, _, _)
ValidateEmissionsLoop(es, i, acc) ==
    IF i > Len(es) THEN [raised |-> "none", acc |-> acc]
    ELSE LET emission      == es[i]
             record_issues == EmissionRecordIssues(emission, i)
             q             == RelativeDeviation(emission)
         IN  IF q.raised # "none" THEN [raised |-> q.raised, acc |-> acc]
             ELSE ValidateEmissionsLoop(es, i + 1,
                      [valid_count |-> IF record_issues = <<>>
                                       THEN acc.valid_count + 1 ELSE acc.valid_count,
                       errors      |-> acc.errors \o record_issues,
                       warnings    |-> acc.warnings
                                       \o EmissionRecordWarnings(emission, i, q.v)])

\* what the call raises, and the report it returns when it raises nothing
validate_emissions_data(es) ==
    IF es = <<>>
    THEN [raised |-> "none",
          value  |-> Report(0, 0, <<[record |-> 0, issue |-> "No emission data provided"]>>,
                            <<>>, RatInt(0))]
    ELSE LET out == ValidateEmissionsLoop(es, 1,
                        [valid_count |-> 0, errors |-> <<>>, warnings |-> <<>>])
         IN  IF out.raised # "none"
             THEN [raised |-> out.raised, value |-> Report(0, 0, <<>>, <<>>, RatInt(0))]
             ELSE [raised |-> "none",
                   value  |-> Report(Len(es), out.acc.valid_count, out.acc.errors,
                                     out.acc.warnings,
                                     RatMul(Rat(out.acc.valid_count, Len(es)), RatInt(100)))]

ValidateEmissionsData ==
    /\ LET out == validate_emissions_data(emissions)
       IN  result' = [op |-> "validate_emissions_data", raised |-> out.raised,
                      value |-> out.value]
    /\ UNCHANGED <<emissions, metrics, tax, df, data_type, row_i, stdout>>

-----------------------------------------------------------------------------
(* utils/calculations.py: EmissionCalculator.validate_emission_data *)

\* what the call raises, and the list of issues it returns when it raises nothing
validate_emission_data(emission) ==
    LET issues ==
            (IF emission.co2_equivalent_tonnes < 0
                THEN <<"CO2 equivalent cannot be negative">> ELSE <<>>)
            \o (IF emission.activity_data < 0
                THEN <<"Activity data cannot be negative">> ELSE <<>>)
            \o (IF emission.emission_factor < 0
                THEN <<"Emission factor cannot be negative">> ELSE <<>>)
            \o (IF emission.reporting_period_start > emission.reporting_period_end
                THEN <<"Start date must be before end date">> ELSE <<>>)
            \o (IF emission.co2_equivalent_tonnes > 100000
                THEN <<"Unusually high CO2 equivalent value - please verify">> ELSE <<>>)
        q == RelativeDeviation(emission)
    IN  IF q.raised # "none" THEN [raised |-> q.raised, value |-> <<>>]
        ELSE [raised |-> "none",
              value  |-> issues \o (IF RatLt(Rat(1, 100), q.v)
                                    THEN <<"CO2e value inconsistent">> ELSE <<>>)]

ValidateEmissionData(i) ==
    /\ i \in 1..Len(emissions)
    /\ LET out == validate_emission_data(emissions[i])
       IN  result' = [op |-> "validate_emission_data", raised |-> out.raised,
                      value |-> out.value]
    /\ UNCHANGED <<emissions, metrics, tax, df, data_type, row_i, stdout>>

-----------------------------------------------------------------------------
(* data/processors.py: DataValidator.validate_metrics_data *)

Whitespace == {" ", "\t", "\n"}

\* s.lstrip()
RECURSIVE LStrip(_)
LStrip(s) ==
    IF s # <<>> /\ Head(s) \in Whitespace THEN LStrip(Tail(s)) ELSE s

\* s.strip()
RECURSIVE Strip(_)
Strip(s) ==
    LET l == LStrip(s)
    IN  IF l # <<>> /\ l[Len(l)] \in Whitespace
        THEN Strip(SubSeq(l, 1, Len(l) - 1)) ELSE l

\* a mutant: a period that starts and ends on the same day is no error
MetricIssuesStrictDates(metric, i) ==
    (IF Strip(metric.metric_name) = <<>>
        THEN <<[record |-> i, issue |-> "Metric name cannot be empty"]>> ELSE <<>>)
    \o (IF Strip(metric.metric_unit) = <<>>
        THEN <<[record |-> i, issue |-> "Metric unit cannot be empty"]>> ELSE <<>>)
    \o (IF metric.reporting_period_start > metric.reporting_period_end
        THEN <<[record |-> i, issue |-> "Start date must be before end date"]>> ELSE <<>>)

MetricRecordIssues(metric, i) ==
    (IF Strip(metric.metric_name) = <<>>
        THEN <<[record |-> i, issue |-> "Metric name cannot be empty"]>> ELSE <<>>)
    \o (IF Strip(metric.metric_unit) = <<>>
        THEN <<[record |-> i, issue |-> "Metric unit cannot be empty"]>> ELSE <<>>)
    \o (IF metric.reporting_period_start >= metric.reporting_period_end
        THEN <<[record |-> i, issue |-> "Start date must be before end date"]>> ELSE <<>>)

\* "if metric.progress_to_target and abs(calculated_progress - progress) > 1"
ProgressMismatch(metric) ==
    /\ ~metric.target_value.isNone
    /\ metric.metric_value.kind = "num"
    /\ metric.target_value.v.n # 0
    /\ LET calculated_progress ==
               RatMul(RatDiv(metric.metric_value.num, metric.target_value.v), RatInt(100))
           p == progress_to_target(metric)
       IN  /\ ~p.isNone
           /\ p.v.n # 0
           /\ RatLt(RatInt(1), RatAbs(RatSub(calculated_progress, p.v)))

MetricRecordWarnings(metric, i) ==
    (IF ProgressMismatch(metric)
        THEN <<[record |-> i, issue |-> "Progress calculation may be incorrect"]>> ELSE <<>>)
    \o (IF Falsy(metric.description)
        THEN <<[record |-> i, issue |-> "Missing description"]>> ELSE <<>>)
    \o (IF metric.target_value.isNone
        THEN <<[record |-> i, issue |-> "No target value set"]>> ELSE <<>>)
    \o (IF ~metric.verified
        THEN <<[record |-> i, issue |-> "Data not verified"]>> ELSE <<>>)

RECURSIVE ValidateMetricsLoop(_, _, _)
ValidateMetricsLoop(ms, i, acc) ==
    IF i > Len(ms) THEN acc
    ELSE LET record_issues == MetricRecordIssues(ms[i], i)
         IN  ValidateMetricsLoop(ms, i + 1,
                 [valid_count |-> IF record_issues = <<>>
                                  THEN acc.valid_count + 1 ELSE acc.valid_count,
                  errors      |-> acc.errors \o record_issues,
                  warnings    |-> acc.warnings \o MetricRecordWarnings(ms[i], i)])

\* a mutant: the empty list is not told apart, the score divides by len(metrics)
ValidateMetricsNoEmptyCheck(ms) ==
    LET acc == ValidateMetricsLoop(ms, 1,
                   [valid_count |-> 0, errors |-> <<>>, warnings |-> <<>>])
        q   == FloatDiv(RatInt(acc.valid_count), RatInt(Len(ms)))
    IN  IF q.raised # "none"
        THEN [raised |-> q.raised, value |-> Report(0, 0, <<>>, <<>>, RatInt(0))]
        ELSE [raised |-> "none",
              value  |-> Report(Len(ms), acc.valid_count, acc.errors, acc.warnings,
                                RatMul(q.v, RatInt(100)))]

validate_metrics_data(ms) ==
    IF ms = <<>>
    THEN [raised |-> "none",
          value  |-> Report(0, 0, <<[record |-> 0, issue |-> "No metrics data provided"]>>,
                            <<>>, RatInt(0))]
    ELSE LET acc == ValidateMetricsLoop(ms, 1,
                        [valid_count |-> 0, errors |-> <<>>, warnings |-> <<>>])
         IN  [raised |-> "none",
              value  |-> Report(Len(ms), acc.valid_count, acc.errors, acc.warnings,
                                RatMul(Rat(acc.valid_count, Len(ms)), RatInt(100)))]

ValidateMetricsData ==
    /\ LET out == validate_metrics_data(metrics)
       IN  result' = [op |-> "validate_metrics_data", raised |-> out.raised,
                      value |-> out.value]
    /\ UNCHANGED <<emissions, metrics, tax, df, data_type, row_i, stdout>>

-----------------------------------------------------------------------------
(* Specification of the validator: a list of records that construction     *)
(* accepts, and the validation calls on it                                 *)

\* longest list handed to the validator
MaxBatch == 2

\* every combination of the fields the hard errors and the consistency check
\* read; a record is either located and verified or neither
ValidatorEmissions ==
    {EmissionData(a) : a \in
        {x \in [source                 : {"electricity"},
                scope                  : {"scope_2"},
                co2_equivalent_tonnes  : {0, 22},
                reporting_period_start : {1, 2},
                reporting_period_end   : {2},
                activity_data          : {0, 11},
                activity_unit          : {<<"k", "W", "h">>},
                emission_factor        : {0, 1, 2},
                location               : {NoneStr, Some(<<"H", "Q">>)},
                verified               : BOOLEAN] :
            x.verified <=> ~Falsy(x.location)}}

\* every combination of the fields the hard errors and the warnings read
ValidatorMetrics ==
    [category               : {"social"},
     metric_name            : {<<" ">>, <<"E">>},
     metric_value           : {NumValue(RatInt(1))},
     metric_unit            : {<<>>, <<"u">>},
     reporting_period_start : {1, 2},
     reporting_period_end   : {2},
     target_value           : {NoneNum, Some(RatInt(2))},
     description            : {NoneStr, Some(<<"d">>)},
     verified               : BOOLEAN]

InitValidator ==
    /\ \/ emissions \in SeqsUpTo(ValidatorEmissions, MaxBatch) /\ metrics = <<>>
       \/ emissions = <<>> /\ metrics \in SeqsUpTo(ValidatorMetrics, MaxBatch)
    /\ tax = NoTax
    /\ df = NoFrame
    /\ data_type = "none"
    /\ row_i = 0
    /\ stdout = <<>>
    /\ result = NoResult

NextValidator ==
    \/ ValidateEmissionsData
    \/ \E i \in 1..MaxBatch : ValidateEmissionData(i)
    \/ ValidateMetricsData

SpecValidator == InitValidator /\ [][NextValidator]_vars

-----------------------------------------------------------------------------
(* C7: for a non-empty batch validate_emissions_data reports total_records *)
(* = batch size, valid_records = the number of records with none of        *)
(* co2e <= 0, activity_data <= 0, emission_factor <= 0, start >= end, and  *)
(* data_quality_score = valid_records / total_records * 100, whatever the  *)
(* warnings.                                                               *)

C7_HardError(e) ==
    \/ e.co2_equivalent_tonnes <= 0
    \/ e.activity_data <= 0
    \/ e.emission_factor <= 0
    \/ e.reporting_period_start >= e.reporting_period_end

C7_QualityReport ==
    (result.op = "validate_emissions_data" /\ emissions # <<>>) =>
        /\ result.raised = "none"
        /\ result.value.total_records = Len(emissions)
        /\ result.value.valid_records =
               Cardinality({i \in 1..Len(emissions) : ~C7_HardError(emissions[i])})
        /\ result.value.data_quality_score.n * Len(emissions)
               = 100 * result.value.valid_records * result.value.data_quality_score.d

-----------------------------------------------------------------------------
(* C8: validating an empty list (emissions or metrics) returns a report    *)
(* with total_records 0, valid_records 0, data_quality_score 0.0, no       *)
(* warnings and exactly one error entry, "no data provided"; it raises no  *)
(* ZeroDivisionError.                                                      *)

C8_EmptyReport ==
    /\ (result.op = "validate_emissions_data" /\ emissions = <<>>) =>
           /\ result.raised = "none"
           /\ result.value.total_records = 0
           /\ result.value.valid_records = 0
           /\ result.value.data_quality_score.n = 0
           /\ result.value.warnings = <<>>
           /\ Len(result.value.errors) = 1
           /\ result.value.errors[1].issue = "No emission data provided"
    /\ (result.op = "validate_metrics_data" /\ metrics = <<>>) =>
           /\ result.raised = "none"
           /\ result.value.total_records = 0
           /\ result.value.valid_records = 0
           /\ result.value.data_quality_score.n = 0
           /\ result.value.warnings = <<>>
           /\ Len(result.value.errors) = 1
           /\ result.value.errors[1].issue = "No metrics data provided"

\* validate_metrics_data has returned for the empty list
C8_Witness ==
    /\ metrics = <<>>
    /\ emissions = <<>>
    /\ result.op = "validate_metrics_data"
    /\ result.raised = "none"

-----------------------------------------------------------------------------
(* C9: validation findings are data: for every batch of constructible      *)
(* records (activity_data = 0 or emission_factor = 0 included) neither     *)
(* validate_emissions_data nor validate_emission_data raises.              *)

C9_FindingsAreData ==
    result.op \in {"validate_emissions_data", "validate_emission_data"} =>
        result.raised = "none"

-----------------------------------------------------------------------------
(* utils/calculations.py: EmissionCalculator.calculate_scope_totals *)

Range(f) == {f[x] : x \in DOMAIN f}

\* the loop "for emission in emissions": scope_totals[scope] += co2e
RECURSIVE ScopeTotalsLoop(_, _)
ScopeTotalsLoop(es, scope_totals) ==
    IF es = <<>> THEN scope_totals
    ELSE ScopeTotalsLoop(Tail(es),
             [scope_totals EXCEPT ![Head(es).scope] =
                  @ + Head(es).co2_equivalent_tonnes])

\* a mutant: only the scopes that have a record get an entry
ScopeTotalsSparse(es) ==
    ScopeTotalsLoop(es, [scope \in {es[i].scope : i \in 1..Len(es)} |-> 0])

calculate_scope_totals(es) ==
    ScopeTotalsLoop(es, [scope \in Range(EmissionScope) |-> 0])

CalculateScopeTotals ==
    /\ result' = [op |-> "calculate_scope_totals", raised |-> "none",
                  value |-> calculate_scope_totals(emissions)]
    /\ UNCHANGED <<emissions, metrics, tax, df, data_type, row_i, stdout>>

-----------------------------------------------------------------------------
(* utils/calculations.py: EmissionCalculator.calculate_source_totals *)

\* the loop "for emission in emissions": a source gets its key, at 0.0, the
\* first time a record has it; then source_totals[source_key] += co2e
RECURSIVE SourceTotalsLoop(_, _)
SourceTotalsLoop(es, source_totals) ==
    IF es = <<>> THEN source_totals
    ELSE LET source_key == Head(es).source
             keyed == IF source_key \notin DOMAIN source_totals
                      THEN source_totals @@ (source_key :> 0)
                      ELSE source_totals
         IN  SourceTotalsLoop(Tail(es),
                 [keyed EXCEPT ![source_key] = @ + Head(es).co2_equivalent_tonnes])

\* a mutant: a record without emissions does not give its source a key
SourceTotalsSkipZero(es) ==
    SourceTotalsLoop(SelectSeq(es, LAMBDA e : e.co2_equivalent_tonnes # 0), <<>>)

\* a mutant: source_totals is kept between calls, so that a second call adds
\* to the totals of the first
SourceTotalsAccumulated(es) ==
    SourceTotalsLoop(es, IF result.op = "calculate_source_totals"
                         THEN result.value ELSE <<>>)

\* source_totals = {} is the function of empty domain
calculate_source_totals(es) == SourceTotalsLoop(es, <<>>)

CalculateSourceTotals ==
    /\ result' = [op |-> "calculate_source_totals", raised |-> "none",
                  value |-> calculate_source_totals(emissions)]
    /\ UNCHANGED <<emissions, metrics, tax, df, data_type, row_i, stdout>>

-----------------------------------------------------------------------------
(* utils/calculations.py: EmissionCalculator.calculate_emission_intensity *)

\* a mutant: any denominator that is not None and not 0 is divided by
SuppliedNonZero(x) == ~x.isNone /\ x.v.n # 0

\* "if x and x > 0" of an Optional number
Supplied(x) == ~x.isNone /\ x.v.n # 0 /\ RatLt(RatInt(0), x.v)

\* the keys of intensity_metrics, and the argument each divides by
IntensityKeys(revenue, employees, production_units) ==
    [emissions_per_revenue         |-> revenue,
     emissions_per_employee        |-> employees,
     emissions_per_production_unit |-> production_units]

calculate_emission_intensity(es, revenue, employees, production_units) ==
    LET total_emissions == RatInt(TotalCo2e(es))
        by == IntensityKeys(revenue, employees, production_units)
    IN  [k \in {key \in DOMAIN by : Supplied(by[key])}
            |-> RatDiv(total_emissions, by[k].v)]

CalculateEmissionIntensity(revenue, employees, production_units) ==
    /\ result' = [op |-> "calculate_emission_intensity", raised |-> "none",
                  args |-> [revenue |-> revenue, employees |-> employees,
                            production_units |-> production_units],
                  value |-> calculate_emission_intensity(emissions, revenue,
                                employees, production_units)]
    /\ UNCHANGED <<emissions, metrics, tax, df, data_type, row_i, stdout>>

-----------------------------------------------------------------------------
(* Specification of the emission calculator: a list of records, and the    *)
(* calls on it                                                             *)

\* longest list handed to the calculator
MaxEmissions == 3

CalculatorEmissions ==
    {EmissionData(a) : a \in
        [source                 : {"electricity", "fuel_combustion"},
         scope                  : Range(EmissionScope),
         co2_equivalent_tonnes  : {0, 50, 100},
         reporting_period_start : {1},
         reporting_period_end   : {2},
         activity_data          : {300},
         activity_unit          : {<<"k", "W", "h">>},
         emission_factor        : {1},
         location               : {NoneStr},
         verified               : {FALSE}]}

InitCalculator ==
    /\ emissions \in SeqsUpTo(CalculatorEmissions, MaxEmissions)
    /\ metrics = <<>>
    /\ tax = NoTax
    /\ df = NoFrame
    /\ data_type = "none"
    /\ row_i = 0
    /\ stdout = <<>>
    /\ result = NoResult

NextCalculator ==
    \/ CalculateScopeTotals
    \/ CalculateSourceTotals

SpecCalculator == InitCalculator /\ [][NextCalculator]_vars

-----------------------------------------------------------------------------
(* Specification of the intensity figures: a list of records, and the call *)
(* with each choice of denominators                                        *)

\* the denominators tried: absent, zero, negative and positive
IntensityDenominators ==
    {NoneNum, Some(RatInt(0)), Some(RatInt(-2)), Some(RatInt(4))}

IntensityEmissions ==
    {e \in CalculatorEmissions : e.source = "electricity" /\ e.scope = "scope_1"}

InitIntensity ==
    /\ emissions \in SeqsUpTo(IntensityEmissions, MaxEmissions)
    /\ metrics = <<>>
    /\ tax = NoTax
    /\ df = NoFrame
    /\ data_type = "none"
    /\ row_i = 0
    /\ stdout = <<>>
    /\ result = NoResult

NextIntensity ==
    \E revenue \in IntensityDenominators, employees \in IntensityDenominators,
       production_units \in IntensityDenominators :
        CalculateEmissionIntensity(revenue, employees, production_units)

SpecIntensity == InitIntensity /\ [][NextIntensity]_vars

-----------------------------------------------------------------------------
(* C3: calculate_scope_totals returns, for any list (the empty one too), a *)
(* map with exactly the keys scope_1, scope_2, scope_3; each value is the  *)
(* sum of co2e of the records of that scope (0 without records), and the   *)
(* three values sum to the total co2e of the batch.                        *)

\* the sum of co2e over the records at the indices I
RECURSIVE C3_Co2eOf(_)
C3_Co2eOf(I) ==
    IF I = {} THEN 0
    ELSE LET i == CHOOSE x \in I : TRUE
         IN  emissions[i].co2_equivalent_tonnes + C3_Co2eOf(I \ {i})

C3_ScopeTotals ==
    result.op = "calculate_scope_totals" =>
        LET t == result.value IN
        /\ DOMAIN t = {"scope_1", "scope_2", "scope_3"}
        /\ \A s \in DOMAIN t :
               t[s] = C3_Co2eOf({i \in 1..Len(emissions) : emissions[i].scope = s})
        /\ t["scope_1"] + t["scope_2"] + t["scope_3"] = C3_Co2eOf(1..Len(emissions))

\* two records of one scope, one of another, none of the third
C3_Witness ==
    /\ result.op = "calculate_scope_totals"
    /\ Len(emissions) = 3
    /\ result.value["scope_1"] = 150
    /\ result.value["scope_2"] = 0
    /\ result.value["scope_3"] = 50
    /\ \A i \in 1..3 : emissions[i].scope # "scope_2"

-----------------------------------------------------------------------------
(* C16: calculate_source_totals returns a sparse map *)

\* C16: a source is a key of the result exactly when a record of the batch
\* has it (a record with co2e = 0 counts); its value is the sum of co2e of
\* the records with that source; the empty batch gives the empty map
C16_SourceTotals ==
    result.op = "calculate_source_totals" =>
        LET t == result.value IN
        /\ DOMAIN t = {emissions[i].source : i \in 1..Len(emissions)}
        /\ \A s \in DOMAIN t :
               t[s] = C3_Co2eOf({i \in 1..Len(emissions) : emissions[i].source = s})
        /\ emissions = <<>> => DOMAIN t = {}

\* two sources, one of them only with a record of co2e = 0
C16_Witness ==
    /\ result.op = "calculate_source_totals"
    /\ Len(emissions) = 3
    /\ DOMAIN result.value = {"electricity", "fuel_combustion"}
    /\ result.value["electricity"] = 150
    /\ result.value["fuel_combustion"] = 0

-----------------------------------------------------------------------------
(* C17: calculate_emission_intensity has an entry per usable denominator *)

\* the claim's reading of a denominator: supplied and > 0
C17_Usable(x) == ~x.isNone /\ x.v.n > 0

\* total * d.d / d.n, the quotient of an integer total by the rational d
C17_Quotient(total, d) == Rat(total * d.d, d.n)

\* C17: each of the three entries is present exactly when its denominator is
\* supplied and > 0, and is then total co2e / denominator; None, 0 and a
\* negative denominator give no entry, whatever the batch
C17_EmissionIntensity ==
    result.op = "calculate_emission_intensity" =>
        LET t == result.value
            a == result.args
            total == C3_Co2eOf(1..Len(emissions))
        IN  /\ result.raised = "none"
            /\ DOMAIN t \subseteq {"emissions_per_revenue", "emissions_per_employee",
                                   "emissions_per_production_unit"}
            /\ "emissions_per_revenue" \in DOMAIN t <=> C17_Usable(a.revenue)
            /\ "emissions_per_employee" \in DOMAIN t <=> C17_Usable(a.employees)
            /\ "emissions_per_production_unit" \in DOMAIN t
                    <=> C17_Usable(a.production_units)
            /\ C17_Usable(a.revenue) =>
                    t["emissions_per_revenue"] = C17_Quotient(total, a.revenue.v)
            /\ C17_Usable(a.employees) =>
                    t["emissions_per_employee"] = C17_Quotient(total, a.employees.v)
            /\ C17_Usable(a.production_units) =>
                    t["emissions_per_production_unit"]
                        = C17_Quotient(total, a.production_units.v)

\* 150 tonnes over a revenue of 4, no employees given, -2 production units
C17_Witness ==
    /\ result.op = "calculate_emission_intensity"
    /\ result.args.revenue = Some(RatInt(4))
    /\ result.args.employees.isNone
    /\ result.args.production_units = Some(RatInt(-2))
    /\ DOMAIN result.value = {"emissions_per_revenue"}
    /\ result.value["emissions_per_revenue"] = Rat(75, 2)

-----------------------------------------------------------------------------
(* Texts: tuples of one-character strings *)

UpperCase == <<"A", "B", "C", "D", "E", "F", "G", "H", "I", "J", "K", "L", "M", "N", "O", "P", "Q", "R", "S", "T", "U", "V", "W", "X", "Y", "Z">>
LowerCase == <<"a", "b", "c", "d", "e", "f", "g", "h", "i", "j", "k", "l", "m", "n", "o", "p", "q", "r", "s", "t", "u", "v", "w", "x", "y", "z">>

\* c.lower() of one character
LowerChar(c) ==
    IF \E i \in 1..26 : UpperCase[i] = c
    THEN LowerCase[CHOOSE i \in 1..26 : UpperCase[i] = c]
    ELSE c

\* s.lower()
Lower(s) == [i \in 1..Len(s) |-> LowerChar(s[i])]

\* Python's "a in b" on texts
IsSubstring(a, b) ==
    \E i \in 0..(Len(b) - Len(a)) : SubSeq(b, i + 1, i + Len(a)) = a

\* the text of each enumeration value
Chars ==
    [fuel_combustion |-> <<"f", "u", "e", "l", "_", "c", "o", "m", "b", "u", "s", "t", "i", "o", "n">>,
     electricity |-> <<"e", "l", "e", "c", "t", "r", "i", "c", "i", "t", "y">>,
     heating |-> <<"h", "e", "a", "t", "i", "n", "g">>,
     transportation |-> <<"t", "r", "a", "n", "s", "p", "o", "r", "t", "a", "t", "i", "o", "n">>,
     waste |-> <<"w", "a", "s", "t", "e">>,
     water |-> <<"w", "a", "t", "e", "r">>,
     refrigerants |-> <<"r", "e", "f", "r", "i", "g", "e", "r", "a", "n", "t", "s">>,
     business_travel |-> <<"b", "u", "s", "i", "n", "e", "s", "s", "_", "t", "r", "a", "v", "e", "l">>,
     employee_commuting |-> <<"e", "m", "p", "l", "o", "y", "e", "e", "_", "c", "o", "m", "m", "u", "t", "i", "n", "g">>,
     supply_chain |-> <<"s", "u", "p", "p", "l", "y", "_", "c", "h", "a", "i", "n">>,
     other |-> <<"o", "t", "h", "e", "r">>,
     scope_1 |-> <<"s", "c", "o", "p", "e", "_", "1">>,
     scope_2 |-> <<"s", "c", "o", "p", "e", "_", "2">>,
     scope_3 |-> <<"s", "c", "o", "p", "e", "_", "3">>,
     environmental |-> <<"e", "n", "v", "i", "r", "o", "n", "m", "e", "n", "t", "a", "l">>,
     social |-> <<"s", "o", "c", "i", "a", "l">>,
     governance |-> <<"g", "o", "v", "e", "r", "n", "a", "n", "c", "e">>]

-----------------------------------------------------------------------------
(* data/processors.py: DataImporter, the cells of a row *)

\* a cell as the reader parsed it: a number, a text, a text that is a date,
\* or a missing value (NaN)
NumCell(n)  == [kind |-> "num", num |-> n, text |-> <<>>]
TextCell(t) == [kind |-> "text", num |-> 0, text |-> t]
DateCell(d) == [kind |-> "date", num |-> d, text |-> <<>>]
NanCell     == [kind |-> "nan", num |-> 0, text |-> <<>>]

Digits == <<"0", "1", "2", "3", "4", "5", "6", "7", "8", "9">>

IsDigit(c) == \E i \in 1..10 : Digits[i] = c

\* the number a text of digits writes
RECURSIVE DigitsValue(_)
DigitsValue(t) ==
    IF t = <<>> THEN 0
    ELSE 10 * DigitsValue(SubSeq(t, 1, Len(t) - 1))
             + (CHOOSE i \in 1..10 : Digits[i] = t[Len(t)]) - 1

\* float(cell): a number is itself; a text is the number it writes (digits
\* after an optional sign), or ValueError
FloatOf(cell) ==
    CASE cell.kind = "num" -> [raised |-> "none", v |-> cell.num]
      [] cell.kind \in {"text", "date"} ->
            LET t    == Strip(cell.text)
                neg  == t # <<>> /\ Head(t) = "-"
                body == IF neg THEN Tail(t) ELSE t
            IN  IF body # <<>> /\ \A i \in 1..Len(body) : IsDigit(body[i])
                THEN [raised |-> "none",
                      v |-> IF neg THEN -DigitsValue(body) ELSE DigitsValue(body)]
                ELSE [raised |-> "ValueError", v |-> 0]

\* str(cell)
StrOf(cell) ==
    CASE cell.kind = "text" -> cell.text
      [] cell.kind = "nan"  -> <<"n", "a", "n">>

\* pd.to_datetime(cell).date(): the date a date text writes, or a parse
\* error (a ValueError) for any other text
DateOf(cell) ==
    CASE cell.kind = "date" -> [raised |-> "none", v |-> cell.num]
      [] cell.kind = "text" -> [raised |-> "ValueError", v |-> 0]

\* pd.isna(cell)
IsNa(cell) == cell.kind = "nan"

-----------------------------------------------------------------------------
(* data/processors.py: DataImporter, column resolution and enumerations *)

EmissionSource ==
    <<"fuel_combustion",
      "electricity",
      "heating",
      "transportation",
      "waste",
      "water",
      "refrigerants",
      "business_travel",
      "employee_commuting",
      "supply_chain",
      "other">>

EmissionColumnMapping ==
    [source                 |-> <<"source", "emission_source", "Source", "Emission Source">>,
     scope                  |-> <<"scope", "emission_scope", "Scope", "Emission Scope">>,
     co2_equivalent_tonnes  |-> <<"co2e", "co2_equivalent", "co2_equivalent_tonnes",
                                  "CO2e (tonnes)", "CO2e">>,
     activity_data          |-> <<"activity_data", "activity", "Activity Data", "Activity">>,
     activity_unit          |-> <<"activity_unit", "unit", "Activity Unit", "Unit">>,
     emission_factor        |-> <<"emission_factor", "factor", "Emission Factor", "Factor">>,
     reporting_period_start |-> <<"start_date", "period_start", "Start Date", "Period Start">>,
     reporting_period_end   |-> <<"end_date", "period_end", "End Date", "Period End">>,
     location               |-> <<"location", "Location">>,
     facility               |-> <<"facility", "Facility">>,
     department             |-> <<"department", "Department">>,
     notes                  |-> <<"notes", "Notes", "comments", "Comments">>,
     verified               |-> <<"verified", "Verified">>]

MetricColumnMapping ==
    [category               |-> <<"category", "esg_category", "Category", "ESG Category">>,
     metric_name            |-> <<"metric_name", "metric", "Metric Name", "Metric">>,
     metric_value           |-> <<"value", "metric_value", "Value", "Metric Value">>,
     metric_unit            |-> <<"unit", "metric_unit", "Unit", "Metric Unit">>,
     target_value           |-> <<"target", "target_value", "Target", "Target Value">>,
     reporting_period_start |-> <<"start_date", "period_start", "Start Date", "Period Start">>,
     reporting_period_end   |-> <<"end_date", "period_end", "End Date", "Period End">>,
     description            |-> <<"description", "Description">>,
     data_source            |-> <<"data_source", "source", "Data Source", "Source">>,
     verified               |-> <<"verified", "Verified">>]

\* a mutant: a later candidate replaces an earlier one
LastPresent(possible_names, columns) ==
    LET hits == {i \in 1..Len(possible_names) : possible_names[i] \in columns}
    IN  possible_names[CHOOSE i \in hits : \A j \in hits : i >= j]

\* "for name in possible_names: if name in df.columns: ...; break"
FirstPresent(possible_names, columns) ==
    LET hits == {i \in 1..Len(possible_names) : possible_names[i] \in columns}
    IN  possible_names[CHOOSE i \in hits : \A j \in hits : i <= j]

\* actual_columns: the fields that have a candidate among the columns, each
\* with the first such candidate
ActualColumns(column_mapping, columns) ==
    [field \in {f \in DOMAIN column_mapping :
                   \E i \in 1..Len(column_mapping[f]) : column_mapping[f][i] \in columns}
        |-> FirstPresent(column_mapping[field], columns)]

\* a mutant: the loop over the members does not stop at the first match
MapEnumLast(members, token) ==
    LET hits == {i \in 1..Len(members) :
                    \/ IsSubstring(Chars[members[i]], token)
                    \/ IsSubstring(token, Chars[members[i]])}
    IN  IF hits = {} THEN "NoMember"
        ELSE members[CHOOSE i \in hits : \A j \in hits : i >= j]

\* "for m in Enum: if m.value in token or token in m.value: ...; break":
\* the first member that matches, "NoMember" when none does
MapEnum(members, token) ==
    LET hits == {i \in 1..Len(members) :
                    \/ IsSubstring(Chars[members[i]], token)
                    \/ IsSubstring(token, Chars[members[i]])}
    IN  IF hits = {} THEN "NoMember"
        ELSE members[CHOOSE i \in hits : \A j \in hits : i <= j]

\* bool(cell)
BoolOf(cell) ==
    CASE cell.kind = "num"  -> cell.num # 0
      [] cell.kind = "text" -> cell.text # <<>>
      [] cell.kind = "nan"  -> TRUE

\* the first exception of a sequence of evaluations, "none" when none raises
RECURSIVE FirstRaised(_)
FirstRaised(steps) ==
    IF steps = <<>> THEN "none"
    ELSE IF Head(steps) # "none" THEN Head(steps)
    ELSE FirstRaised(Tail(steps))

\* row[actual_columns[field]]: KeyError when the field has no column
Lookup(actual_columns, field) ==
    IF field \in DOMAIN actual_columns THEN "none" ELSE "KeyError"

\* what print() adds to the output: the text, the row index when the text
\* has one, and the exception when the text has one
Printed(text, row, e) == [text |-> text, row |-> row, e |-> e]

NoRow == [isNone |-> TRUE, v |-> 0]

-----------------------------------------------------------------------------
(* data/processors.py: DataImporter._process_emissions_dataframe *)

\* the body of the loop for one row: the record it appends, or the reason
\* it goes on to the next row without one
EmissionRowOutcome(row, actual_columns) ==
    LET Cell(f) == row[actual_columns[f]]
        Key(f)  == Lookup(actual_columns, f)
        keys    == FirstRaised(<<Key("source"), Key("scope")>>)
    IN  IF keys # "none" THEN [kind |-> "except", e |-> keys]
        ELSE
        LET source == MapEnum(EmissionSource, Lower(StrOf(Cell("source"))))
            scope  == MapEnum(EmissionScope, Lower(StrOf(Cell("scope"))))
        IN  IF source = "NoMember" \/ scope = "NoMember"
            THEN [kind |-> "unmapped", e |-> "none"]
            ELSE
            LET Date(f)  == IF Key(f) # "none" THEN Key(f) ELSE DateOf(Cell(f)).raised
                Float(f) == IF Key(f) # "none" THEN Key(f) ELSE FloatOf(Cell(f)).raised
                args == FirstRaised(<<Date("reporting_period_start"),
                                      Date("reporting_period_end"),
                                      Float("co2_equivalent_tonnes"),
                                      Float("activity_data"),
                                      Key("activity_unit"),
                                      Float("emission_factor")>>)
            IN  IF args # "none" THEN [kind |-> "except", e |-> args]
                ELSE
                LET self == EmissionData(
                        [source                 |-> source,
                         scope                  |-> scope,
                         co2_equivalent_tonnes  |-> FloatOf(Cell("co2_equivalent_tonnes")).v,
                         reporting_period_start |-> DateOf(Cell("reporting_period_start")).v,
                         reporting_period_end   |-> DateOf(Cell("reporting_period_end")).v,
                         activity_data          |-> FloatOf(Cell("activity_data")).v,
                         activity_unit          |-> StrOf(Cell("activity_unit")),
                         emission_factor        |-> FloatOf(Cell("emission_factor")).v,
                         location               |-> IF "location" \in DOMAIN actual_columns
                                                    THEN Some(StrOf(Cell("location")))
                                                    ELSE NoneStr,
                         verified               |-> IF "verified" \in DOMAIN actual_columns
                                                    THEN BoolOf(Cell("verified"))
                                                    ELSE FALSE])
                    init == PostInit(self)
                IN  IF init # "none" THEN [kind |-> "except", e |-> init]
                    ELSE [kind |-> "record", e |-> "none", record |-> self]

\* one turn of "for _, row in df.iterrows()": the row at position row_i,
\* whose index label is row_i counted from 0
ProcessEmissionsRow ==
    /\ data_type = "emissions"
    /\ result.op = "none"
    /\ row_i < Len(df.rows)
    /\ LET actual_columns == ActualColumns(EmissionColumnMapping, df.columns)
           outcome == EmissionRowOutcome(df.rows[row_i + 1], actual_columns)
       IN  /\ emissions' = IF outcome.kind = "record"
                           THEN Append(emissions, outcome.record) ELSE emissions
           /\ stdout' =
                CASE outcome.kind = "record"   -> stdout
                  [] outcome.kind = "unmapped" ->
                        Append(stdout, Printed("Warning: Could not map source or scope",
                                               NoRow, "none"))
                  [] outcome.kind = "except"   ->
                        Append(stdout, Printed("Warning: Could not process row",
                                               Some(row_i), outcome.e))
    /\ row_i' = row_i + 1
    /\ UNCHANGED <<metrics, tax, df, data_type, result>>

-----------------------------------------------------------------------------
(* data/processors.py: DataImporter._process_metrics_dataframe *)

SustainabilityMetrics(a) ==
    [category               |-> a.category,
     metric_name            |-> a.metric_name,
     metric_value           |-> a.metric_value,
     metric_unit            |-> a.metric_unit,
     reporting_period_start |-> a.reporting_period_start,
     reporting_period_end   |-> a.reporting_period_end,
     target_value           |-> a.target_value,
     description            |-> a.description,
     verified               |-> a.verified]

MetricRowOutcome(row, actual_columns) ==
    LET Cell(f) == row[actual_columns[f]]
        Key(f)  == Lookup(actual_columns, f)
    IN  IF Key("category") # "none" THEN [kind |-> "except", e |-> Key("category")]
        ELSE
        LET category == MapEnum(SustainabilityCategory, Lower(StrOf(Cell("category"))))
        IN  IF category = "NoMember" THEN [kind |-> "unmapped", e |-> "none"]
            ELSE
            LET Date(f) == IF Key(f) # "none" THEN Key(f) ELSE DateOf(Cell(f)).raised
                dates == FirstRaised(<<Date("reporting_period_start"),
                                       Date("reporting_period_end"),
                                       Key("metric_value")>>)
            IN  IF dates # "none" THEN [kind |-> "except", e |-> dates]
                ELSE IF IsNa(Cell("metric_value")) THEN [kind |-> "missing", e |-> "none"]
                ELSE
                LET has_target == /\ "target_value" \in DOMAIN actual_columns
                                  /\ ~IsNa(Cell("target_value"))
                    args == FirstRaised(<<Key("metric_name"), Key("metric_unit"),
                                          IF has_target
                                          THEN FloatOf(Cell("target_value")).raised
                                          ELSE "none">>)
                IN  IF args # "none" THEN [kind |-> "except", e |-> args]
                    ELSE
                    [kind |-> "record", e |-> "none", record |->
                     SustainabilityMetrics(
                        [category               |-> category,
                         metric_name            |-> StrOf(Cell("metric_name")),
                         metric_value           |->
                            IF FloatOf(Cell("metric_value")).raised = "none"
                            THEN NumValue(RatInt(FloatOf(Cell("metric_value")).v))
                            ELSE TextValue(StrOf(Cell("metric_value"))),
                         metric_unit            |-> StrOf(Cell("metric_unit")),
                         reporting_period_start |-> DateOf(Cell("reporting_period_start")).v,
                         reporting_period_end   |-> DateOf(Cell("reporting_period_end")).v,
                         target_value           |->
                            IF has_target
                            THEN Some(RatInt(FloatOf(Cell("target_value")).v))
                            ELSE NoneNum,
                         description            |-> IF "description" \in DOMAIN actual_columns
                                                    THEN Some(StrOf(Cell("description")))
                                                    ELSE NoneStr,
                         verified               |-> IF "verified" \in DOMAIN actual_columns
                                                    THEN BoolOf(Cell("verified"))
                                                    ELSE FALSE])]

ProcessMetricsRow ==
    /\ data_type = "metrics"
    /\ result.op = "none"
    /\ row_i < Len(df.rows)
    /\ LET actual_columns == ActualColumns(MetricColumnMapping, df.columns)
           outcome == MetricRowOutcome(df.rows[row_i + 1], actual_columns)
       IN  /\ metrics' = IF outcome.kind = "record"
                         THEN Append(metrics, outcome.record) ELSE metrics
           /\ stdout' =
                CASE outcome.kind \in {"record", "missing"} -> stdout
                  [] outcome.kind = "unmapped" ->
                        Append(stdout, Printed("Warning: Could not map category",
                                               NoRow, "none"))
                  [] outcome.kind = "except"   ->
                        Append(stdout, Printed("Warning: Could not process row",
                                               Some(row_i), outcome.e))
    /\ row_i' = row_i + 1
    /\ UNCHANGED <<emissions, tax, df, data_type, result>>

-----------------------------------------------------------------------------
(* data/processors.py: DataImporter.import_from_csv *)

\* the loop is over: the list of records is the whole return value
ImportFromCsvReturn ==
    /\ data_type \in {"emissions", "metrics"}
    /\ result.op = "none"
    /\ row_i = Len(df.rows)
    /\ result' = [op |-> "import_from_csv", raised |-> "none",
                  value |-> IF data_type = "emissions" THEN emissions ELSE metrics]
    /\ UNCHANGED <<emissions, metrics, tax, df, data_type, row_i, stdout>>

\* any other data_type: the ValueError is caught, printed, and [] returned
ImportFromCsvOtherType ==
    /\ data_type \notin {"emissions", "metrics"}
    /\ result.op = "none"
    /\ stdout' = Append(stdout, Printed("Error importing from CSV", NoRow, "ValueError"))
    /\ result' = [op |-> "import_from_csv", raised |-> "none", value |-> <<>>]
    /\ UNCHANGED <<emissions, metrics, tax, df, data_type, row_i>>

-----------------------------------------------------------------------------
(* Specification of the importer: a parsed table, imported row by row *)

\* most rows in a table
MaxRows == 3

\* the headers of a table of emissions with every column the model reads
EmissionHeaders ==
    {"Source", "scope", "co2e", "activity", "unit", "factor",
     "start_date", "end_date", "location", "verified"}

\* a row that imports
EmissionBaseRow ==
    [Source     |-> TextCell(<<"E", "l", "e", "c", "t", "r", "i", "c", "i", "t", "y">>),
     scope      |-> TextCell(<<"S", "c", "o", "p", "e", "_", "2">>),
     co2e       |-> NumCell(10),
     activity   |-> NumCell(100),
     unit       |-> TextCell(<<"k", "W", "h">>),
     factor     |-> NumCell(1),
     start_date |-> DateCell(1),
     end_date   |-> DateCell(2),
     location   |-> TextCell(<<"H", "Q">>),
     verified   |-> NumCell(1)]

\* the rows tried: the row that imports, and that row with one cell changed
EmissionRows ==
    {EmissionBaseRow}
    \cup {[EmissionBaseRow EXCEPT !.Source = c] :
            c \in {TextCell(<<"x", "y", "z">>), TextCell(<<"e">>), NanCell}}
    \cup {[EmissionBaseRow EXCEPT !.scope = c] : c \in {TextCell(<<"S", "c", "o", "p", "e", " ", "3">>)}}
    \cup {[EmissionBaseRow EXCEPT !.co2e = c] :
            c \in {NumCell(-5), TextCell(<<"a", "b", "c">>), TextCell(<<"2", "0">>)}}
    \cup {[EmissionBaseRow EXCEPT !.activity = c] : c \in {NumCell(-1)}}
    \cup {[EmissionBaseRow EXCEPT !.start_date = c] :
            c \in {DateCell(2), DateCell(3), TextCell(<<"s", "o", "o", "n">>)}}

\* the headers present: all of them, the required ones only, and all but
\* the one of the scope
EmissionColumns ==
    {EmissionHeaders,
     EmissionHeaders \ {"location", "verified"},
     EmissionHeaders \ {"scope"}}

MetricHeaders ==
    {"category", "metric", "value", "unit", "target",
     "start_date", "end_date", "description"}

MetricBaseRow ==
    [category    |-> TextCell(<<"S", "o", "c", "i", "a", "l">>),
     metric      |-> TextCell(<<"T", "r", "a", "i", "n", "i", "n", "g">>),
     value       |-> NumCell(40),
     unit        |-> TextCell(<<"h">>),
     target      |-> NumCell(50),
     start_date  |-> DateCell(1),
     end_date    |-> DateCell(2),
     description |-> TextCell(<<"d">>)]

MetricRows ==
    {MetricBaseRow}
    \cup {[MetricBaseRow EXCEPT !.category = c] : c \in {TextCell(<<"x", "y", "z">>)}}
    \cup {[MetricBaseRow EXCEPT !.value = c] : c \in {NanCell, TextCell(<<"H", "i", "g", "h">>)}}
    \cup {[MetricBaseRow EXCEPT !.target = c] : c \in {NanCell, TextCell(<<"a", "b", "c">>)}}
    \cup {[MetricBaseRow EXCEPT !.start_date = c] :
            c \in {DateCell(3), TextCell(<<"s", "o", "o", "n">>)}}

MetricColumns ==
    {MetricHeaders,
     MetricHeaders \ {"target", "description"},
     MetricHeaders \ {"value"}}

\* a table: the headers present, and each row's cells under those headers
Frame(columns, rows) ==
    [columns |-> columns,
     rows    |-> [i \in 1..Len(rows) |-> [h \in columns |-> rows[i][h]]]]

InitImport ==
    /\ emissions = <<>>
    /\ metrics = <<>>
    /\ tax = NoTax
    /\ \/ /\ data_type = "emissions"
          /\ \E columns \in EmissionColumns, rows \in SeqsUpTo(EmissionRows, MaxRows) :
                df = Frame(columns, rows)
       \/ /\ data_type \in {"metrics", "other"}
          /\ \E columns \in MetricColumns, rows \in SeqsUpTo(MetricRows, MaxRows) :
                df = Frame(columns, rows)
    /\ row_i = 0
    /\ stdout = <<>>
    /\ result = NoResult

NextImport ==
    \/ ProcessEmissionsRow
    \/ ProcessMetricsRow
    \/ ImportFromCsvReturn
    \/ ImportFromCsvOtherType

SpecImport == InitImport /\ [][NextImport]_vars

-----------------------------------------------------------------------------
(* C5: emission import keeps the rows that import, in order, and skips the
   rest without stopping *)

C5_Required ==
    {"source", "scope", "co2_equivalent_tonnes", "activity_data", "activity_unit",
     "emission_factor", "reporting_period_start", "reporting_period_end"}

\* the row's required fields resolve, coerce and map, and the values satisfy
\* the invariants of EmissionData
C5_RowImports(row, columns) ==
    LET ac == ActualColumns(EmissionColumnMapping, columns)
        cell(f) == row[ac[f]]
    IN  /\ C5_Required \subseteq DOMAIN ac
        /\ \A f \in {"co2_equivalent_tonnes", "activity_data", "emission_factor"} :
              FloatOf(cell(f)).raised = "none"
        /\ \A f \in {"reporting_period_start", "reporting_period_end"} :
              DateOf(cell(f)).raised = "none"
        /\ MapEnum(EmissionSource, Lower(StrOf(cell("source")))) # "NoMember"
        /\ MapEnum(EmissionScope, Lower(StrOf(cell("scope")))) # "NoMember"
        /\ DateOf(cell("reporting_period_start")).v <= DateOf(cell("reporting_period_end")).v
        /\ FloatOf(cell("co2_equivalent_tonnes")).v >= 0
        /\ FloatOf(cell("activity_data")).v >= 0

\* the positions, among the first k rows, of the rows that import
C5_Kept(k) == {j \in 1..k : C5_RowImports(df.rows[j], df.columns)}

\* the n-th of them
C5_Nth(kept, n) == CHOOSE j \in kept : Cardinality({i \in kept : i < j}) = n - 1

\* the record was made from the row
C5_RecordOf(record, row) ==
    LET ac == ActualColumns(EmissionColumnMapping, df.columns)
        cell(f) == row[ac[f]]
    IN  /\ record.source = MapEnum(EmissionSource, Lower(StrOf(cell("source"))))
        /\ record.scope = MapEnum(EmissionScope, Lower(StrOf(cell("scope"))))
        /\ record.co2_equivalent_tonnes = FloatOf(cell("co2_equivalent_tonnes")).v
        /\ record.activity_data = FloatOf(cell("activity_data")).v
        /\ record.emission_factor = FloatOf(cell("emission_factor")).v
        /\ record.reporting_period_start = DateOf(cell("reporting_period_start")).v
        /\ record.reporting_period_end = DateOf(cell("reporting_period_end")).v

\* C5: during and after an import of emissions, the records are those of the
\* rows read so far that import, one record per such row and in the order of
\* the rows; the import returns only after the last row, with those records
C5_SkipAndContinue ==
    data_type = "emissions" =>
        LET kept == C5_Kept(row_i)
        IN  /\ Len(emissions) = Cardinality(kept)
            /\ \A n \in 1..Len(emissions) :
                  C5_RecordOf(emissions[n], df.rows[C5_Nth(kept, n)])
            /\ result.op = "import_from_csv" =>
                  /\ row_i = Len(df.rows)
                  /\ result.value = emissions

\* three rows, the second with co2e = -5: the records of rows 1 and 3 return
C5_Witness ==
    /\ data_type = "emissions"
    /\ result.op = "import_from_csv"
    /\ Len(df.rows) = 3
    /\ df.rows[2]["co2e"] = NumCell(-5)
    /\ Len(result.value) = 2
    /\ result.value[1].co2_equivalent_tonnes = 10
    /\ result.value[2].source = "fuel_combustion"

-----------------------------------------------------------------------------
(* C6: one diagnostic, with the row's index, for every skipped row *)

\* C6: the diagnostics printed so far are one per row read that left no
\* record, each with the index of its row, in ascending order of the index
C6_DiagnosticPerSkippedRow ==
    data_type \in {"emissions", "metrics"} =>
        LET records == IF data_type = "emissions" THEN emissions ELSE metrics
        IN  /\ Len(records) + Len(stdout) = row_i
            /\ \A k \in 1..Len(stdout) :
                  /\ ~stdout[k].row.isNone
                  /\ stdout[k].row.v \in 0..(row_i - 1)
            /\ \A k \in 1..(Len(stdout) - 1) : stdout[k].row.v < stdout[k + 1].row.v

-----------------------------------------------------------------------------
(* utils/calculations.py: SustainabilityAnalyzer.identify_performance_gaps *)

\* an entry of gap_info['issues']: the text, and the progress that the text
\* of low progress shows with one decimal ("{p:.1f}%")
Issue(text, progress) == [text |-> text, progress |-> progress]

\* gap_info after the four checks of one metric
GapInfo(metric) ==
    LET p == progress_to_target(metric)
    IN  [metric_name |-> metric.metric_name,
         category    |-> metric.category,
         issues      |->
            (IF metric.target_value.isNone
             THEN <<Issue("No target value set", NoneNum)>> ELSE <<>>)
            \o (IF ~p.isNone /\ RatLt(p.v, RatInt(50))
                THEN <<Issue("Low progress to target", Some(Round1(p.v)))>> ELSE <<>>)
            \o (IF ~metric.verified
                THEN <<Issue("Data not verified", NoneNum)>> ELSE <<>>)
            \o (IF Falsy(metric.description)
                THEN <<Issue("Missing description", NoneNum)>> ELSE <<>>)]

\* the loop "for metric in metrics": gaps after it
RECURSIVE GapsLoop(_, _)
GapsLoop(ms, gaps) ==
    IF ms = <<>> THEN gaps
    ELSE LET gap_info == GapInfo(Head(ms))
         IN  GapsLoop(Tail(ms),
                      IF gap_info.issues # <<>> THEN Append(gaps, gap_info) ELSE gaps)

\* a mutant: every metric gets an entry, with or without issues
GapsOfEveryMetric(ms) == [i \in 1..Len(ms) |-> GapInfo(ms[i])]

identify_performance_gaps(ms) == GapsLoop(ms, <<>>)

IdentifyPerformanceGaps ==
    /\ result' = [op |-> "identify_performance_gaps", raised |-> "none",
                  value |-> identify_performance_gaps(metrics)]
    /\ UNCHANGED <<emissions, metrics, tax, df, data_type, row_i, stdout>>

-----------------------------------------------------------------------------
(* Specification of the gap analysis: a list of metrics, and the call on it *)

\* value and target of the metrics tried: progress 0, 25, 50 and 125, no
\* target, a target of 0, and a value that is a text
GapProgress ==
    {<<NumValue(RatInt(0)), Some(RatInt(2))>>,
     <<NumValue(Rat(1, 2)), Some(RatInt(2))>>,
     <<NumValue(RatInt(1)), Some(RatInt(2))>>,
     <<NumValue(Rat(5, 2)), Some(RatInt(2))>>,
     <<NumValue(Rat(1, 2)), NoneNum>>,
     <<NumValue(Rat(1, 2)), Some(RatInt(0))>>,
     <<TextValue(<<"H", "i", "g", "h">>), Some(RatInt(2))>>}

\* the description of a metric of each category: a text, "" and None
GapDescription ==
    [environmental |-> Some(<<"d">>), social |-> Some(<<>>), governance |-> NoneStr]

GapMetrics ==
    {SustainabilityMetrics(
        [category               |-> category,
         metric_name            |-> <<"E">>,
         metric_value           |-> vt[1],
         metric_unit            |-> <<"u">>,
         reporting_period_start |-> 1,
         reporting_period_end   |-> 2,
         target_value           |-> vt[2],
         description            |-> GapDescription[category],
         verified               |-> verified]) :
        category \in DOMAIN GapDescription, vt \in GapProgress, verified \in BOOLEAN}

InitGaps ==
    /\ emissions = <<>>
    /\ metrics \in SeqsUpTo(GapMetrics, MaxMetrics)
    /\ tax = NoTax
    /\ df = NoFrame
    /\ data_type = "none"
    /\ row_i = 0
    /\ stdout = <<>>
    /\ result = NoResult

NextGaps == IdentifyPerformanceGaps

SpecGaps == InitGaps /\ [][NextGaps]_vars

-----------------------------------------------------------------------------
(* C18: identify_performance_gaps lists, in input order, the metrics that  *)
(* have a reason, each with exactly its reasons                            *)

\* the reasons that hold for a metric
C18_Reasons(m) ==
    LET defined == /\ ~m.target_value.isNone
                   /\ m.metric_value.kind = "num"
                   /\ m.target_value.v.n # 0
    IN  {r \in {"No target value set", "Low progress to target",
                "Data not verified", "Missing description"} :
            \/ r = "No target value set" /\ m.target_value.isNone
            \/ /\ r = "Low progress to target"
               /\ defined
               /\ RatLt(RatMul(RatDiv(m.metric_value.num, m.target_value.v), RatInt(100)),
                        RatInt(50))
            \/ r = "Data not verified" /\ ~m.verified
            \/ r = "Missing description" /\ (m.description.isNone \/ m.description.v = <<>>)}

\* the positions of the metrics that have a reason
C18_Kept == {i \in 1..Len(metrics) : C18_Reasons(metrics[i]) # {}}

C18_Nth(n) == CHOOSE j \in C18_Kept : Cardinality({i \in C18_Kept : i < j}) = n - 1

\* C18: one entry per metric with a reason, in the order of the metrics; the
\* entry names the metric and lists each of its reasons once and no other
C18_PerformanceGaps ==
    result.op = "identify_performance_gaps" =>
        LET gaps == result.value IN
        /\ Len(gaps) = Cardinality(C18_Kept)
        /\ \A n \in 1..Len(gaps) :
              LET m == metrics[C18_Nth(n)]
                  issues == gaps[n].issues
              IN  /\ gaps[n].metric_name = m.metric_name
                  /\ gaps[n].category = m.category
                  /\ {issues[k].text : k \in 1..Len(issues)} = C18_Reasons(m)
                  /\ Len(issues) = Cardinality(C18_Reasons(m))

\* a metric without a reason, at a progress of exactly 50, before one with
\* three reasons: only the second has an entry
C18_Witness ==
    /\ result.op = "identify_performance_gaps"
    /\ Len(metrics) = 2
    /\ C18_Reasons(metrics[1]) = {}
    /\ metrics[1].metric_value = NumValue(RatInt(1))
    /\ Len(result.value) = 1
    /\ Len(result.value[1].issues) = 3
    /\ result.value[1].issues[1].text = "Low progress to target"

-----------------------------------------------------------------------------
(* data/processors.py: DataValidator.check_data_completeness *)

\* the loop "for x in xs: coverage[key of x] += 1", from a coverage of 0
\* for each member of the enumeration
RECURSIVE CoverageLoop(_, _, _)
CoverageLoop(xs, field, coverage) ==
    IF xs = <<>> THEN coverage
    ELSE CoverageLoop(Tail(xs), field,
                      [coverage EXCEPT ![Head(xs)[field]] = @ + 1])

\* [key for key, count in coverage.items() if count == 0], in the order of
\* the enumeration
MissingKeys(members, coverage) == SelectSeq(members, LAMBDA k : coverage[k] = 0)

\* a mutant: a key counts as covered from its second record on
CoveredTwice(members, coverage) ==
    Len(SelectSeq(members, LAMBDA k : coverage[k] > 1))

\* len([c for c in coverage.values() if c > 0])
Covered(members, coverage) ==
    Len(SelectSeq(members, LAMBDA k : coverage[k] > 0))

check_data_completeness(es, ms) ==
    LET scope_coverage     == CoverageLoop(es, "scope",
                                  [k \in Range(EmissionScope) |-> 0])
        missing_scopes     == MissingKeys(EmissionScope, scope_coverage)
        category_coverage  == CoverageLoop(ms, "category",
                                  [k \in Range(SustainabilityCategory) |-> 0])
        missing_categories == MissingKeys(SustainabilityCategory, category_coverage)
        scope_score        == RatMul(Rat(Covered(EmissionScope, scope_coverage),
                                         Len(EmissionScope)), RatInt(50))
        category_score     == RatMul(Rat(Covered(SustainabilityCategory, category_coverage),
                                         Len(SustainabilityCategory)), RatInt(50))
    IN  [emissions_coverage |-> [by_scope |-> scope_coverage],
         metrics_coverage   |-> [by_category |-> category_coverage],
         overall_score      |-> RatAdd(scope_score, category_score),
         recommendations    |->
            (IF missing_scopes # <<>>
             THEN <<[text |-> "Missing emission data for scopes",
                     names |-> missing_scopes]>> ELSE <<>>)
            \o (IF missing_categories # <<>>
                THEN <<[text |-> "Missing metrics for categories",
                        names |-> missing_categories]>> ELSE <<>>)]

CheckDataCompleteness ==
    /\ result' = [op |-> "check_data_completeness", raised |-> "none",
                  value |-> check_data_completeness(emissions, metrics)]
    /\ UNCHANGED <<emissions, metrics, tax, df, data_type, row_i, stdout>>

-----------------------------------------------------------------------------
(* Specification of the completeness check: a list of emissions and a list *)
(* of metrics, and the call on them                                        *)

\* longest list of either kind handed to the completeness check
MaxCoverage == 3

\* a record of each scope
CompletenessEmissions ==
    {e \in CalculatorEmissions :
        e.source = "electricity" /\ e.co2_equivalent_tonnes = 50}

\* a metric of each category
CompletenessMetrics ==
    {m \in GapMetrics : m.verified /\ m.metric_value = NumValue(RatInt(1))}

InitCompleteness ==
    /\ emissions \in SeqsUpTo(CompletenessEmissions, MaxCoverage)
    /\ metrics \in SeqsUpTo(CompletenessMetrics, MaxCoverage)
    /\ tax = NoTax
    /\ df = NoFrame
    /\ data_type = "none"
    /\ row_i = 0
    /\ stdout = <<>>
    /\ result = NoResult

NextCompleteness == CheckDataCompleteness

SpecCompleteness == InitCompleteness /\ [][NextCompleteness]_vars

-----------------------------------------------------------------------------
(* C19: check_data_completeness counts the records of each scope and each  *)
(* category, names what is missing, and scores the coverage                *)

C19_Scopes == {"scope_1", "scope_2", "scope_3"}

C19_Categories == {"environmental", "social", "governance"}

C19_ScopeCount(s) ==
    Cardinality({i \in 1..Len(emissions) : emissions[i].scope = s})

C19_CategoryCount(c) ==
    Cardinality({i \in 1..Len(metrics) : metrics[i].category = c})

\* the recommendations with the given text
C19_Naming(recs, text) == SelectSeq(recs, LAMBDA r : r.text = text)

\* C19: the report has the count of every scope and every category, zero
\* counts too; one recommendation names the scopes without a record iff
\* there is such a scope, and likewise for the categories; overall_score is
\* covered scopes / 3 * 50 + covered categories / 3 * 50, so 0 for two empty
\* lists and 100 iff every scope and category is covered
C19_Completeness ==
    result.op = "check_data_completeness" =>
        LET v == result.value
            by_scope == v.emissions_coverage.by_scope
            by_category == v.metrics_coverage.by_category
            no_scope == {s \in C19_Scopes : C19_ScopeCount(s) = 0}
            no_category == {c \in C19_Categories : C19_CategoryCount(c) = 0}
            for_scopes == C19_Naming(v.recommendations, "Missing emission data for scopes")
            for_categories == C19_Naming(v.recommendations, "Missing metrics for categories")
        IN  /\ DOMAIN by_scope = C19_Scopes
            /\ \A s \in C19_Scopes : by_scope[s] = C19_ScopeCount(s)
            /\ DOMAIN by_category = C19_Categories
            /\ \A c \in C19_Categories : by_category[c] = C19_CategoryCount(c)
            /\ Len(for_scopes) = IF no_scope = {} THEN 0 ELSE 1
            /\ \A k \in 1..Len(for_scopes) : Range(for_scopes[k].names) = no_scope
            /\ Len(for_categories) = IF no_category = {} THEN 0 ELSE 1
            /\ \A k \in 1..Len(for_categories) :
                  Range(for_categories[k].names) = no_category
            /\ Len(v.recommendations) = Len(for_scopes) + Len(for_categories)
            /\ v.overall_score =
                  Rat((3 - Cardinality(no_scope)) * 50 + (3 - Cardinality(no_category)) * 50, 3)
            /\ (emissions = <<>> /\ metrics = <<>>) => v.overall_score = RatInt(0)
            /\ v.overall_score = RatInt(100) <=> (no_scope = {} /\ no_category = {})

\* two scopes and all categories covered: one recommendation, a score of
\* 250/3
C19_Witness ==
    /\ result.op = "check_data_completeness"
    /\ Len(emissions) = 3
    /\ result.value.emissions_coverage.by_scope =
          [scope_1 |-> 2, scope_2 |-> 0, scope_3 |-> 1]
    /\ Len(result.value.recommendations) = 1
    /\ result.value.recommendations[1].names = <<"scope_2">>
    /\ result.value.overall_score = Rat(250, 3)

-----------------------------------------------------------------------------
(* C20: validate_metrics_data counts the metrics without a hard error; the *)
(* warnings do not count                                                   *)

\* the text is empty or only white space
C20_Blank(s) == \A k \in 1..Len(s) : s[k] \in {" ", "\t", "\n"}

C20_HardError(m) ==
    \/ C20_Blank(m.metric_name)
    \/ C20_Blank(m.metric_unit)
    \/ m.reporting_period_start >= m.reporting_period_end

\* the warnings a metric has by its description, target and verification
C20_Warnings(m) ==
    {w \in {"Missing description", "No target value set", "Data not verified"} :
        \/ w = "Missing description" /\ (m.description.isNone \/ m.description.v = <<>>)
        \/ w = "No target value set" /\ m.target_value.isNone
        \/ w = "Data not verified" /\ ~m.verified}

\* the issues of the list that are about record i
C20_About(list, i) ==
    {list[k].issue : k \in {j \in 1..Len(list) : list[j].record = i}}

\* C20: for a non-empty batch, valid_records is the number of metrics with
\* none of the hard errors, whatever their warnings; a metric has an error
\* entry iff it has a hard error, and a warning for each of missing
\* description, absent target and unverified that holds for it;
\* data_quality_score = valid_records / total_records * 100
C20_MetricsReport ==
    (result.op = "validate_metrics_data" /\ metrics # <<>>) =>
        LET r == result.value
            valid == {i \in 1..Len(metrics) : ~C20_HardError(metrics[i])}
        IN  /\ result.raised = "none"
            /\ r.total_records = Len(metrics)
            /\ r.valid_records = Cardinality(valid)
            /\ r.data_quality_score = Rat(Cardinality(valid) * 100, Len(metrics))
            /\ \A i \in 1..Len(metrics) :
                  /\ C20_About(r.errors, i) = {} <=> i \in valid
                  /\ C20_Warnings(metrics[i]) \subseteq C20_About(r.warnings, i)
                  /\ C20_About(r.warnings, i) \ C20_Warnings(metrics[i])
                        \subseteq {"Progress calculation may be incorrect"}

\* a metric with the three warnings and no hard error counts as valid, next
\* to one whose period starts on the day it ends
C20_Witness ==
    /\ result.op = "validate_metrics_data"
    /\ Len(metrics) = 2
    /\ C20_Warnings(metrics[1]) =
          {"Missing description", "No target value set", "Data not verified"}
    /\ ~C20_HardError(metrics[1])
    /\ metrics[2].reporting_period_start = metrics[2].reporting_period_end
    /\ ~C20_Blank(metrics[2].metric_name) /\ ~C20_Blank(metrics[2].metric_unit)
    /\ result.value.valid_records = 1
    /\ result.value.data_quality_score = RatInt(50)
    /\ Len(result.value.warnings) >= 3

-----------------------------------------------------------------------------
(* data/processors.py: DataTransformer.normalize_emission_units *)

\* unit_conversions.get("kg", 1.0)
KgConversionFactor == Rat(1, 1000)

\* a mutant: created_at is not handed to the copy, which gets the time of
\* its own construction, later than that of any input record
CopyOfStamped(emission) ==
    [EmissionData(emission) EXCEPT !.co2_equivalent_tonnes = RatInt(@)]
        @@ [created_at |-> 2]

\* the arguments of the EmissionData(...) call that copies a record,
\* created_at=emission.created_at among them; the co2e of a copy is held as
\* a rational, the conversion factor being 0.001
CopyOf(emission) ==
    [EmissionData(emission) EXCEPT !.co2_equivalent_tonnes = RatInt(@)]
        @@ [created_at |-> emission.created_at]

\* "if target_unit == "tonnes" and "kg" in emission.activity_unit.lower()"
NeedsConversion(target_unit, emission) ==
    /\ target_unit = "tonnes"
    /\ IsSubstring(<<"k", "g">>, Lower(emission.activity_unit))

\* the call: normalized_emissions = [], before the first turn of the loop
NormalizeEmissionUnits(target_unit) ==
    /\ result.op = "none"
    /\ result' = [op |-> "normalize_emission_units", raised |-> "none",
                  pc |-> "for", target_unit |-> target_unit, i |-> 1,
                  normalized_emissions |-> <<>>]
    /\ UNCHANGED <<emissions, metrics, tax, df, data_type, row_i, stdout>>

\* normalized = EmissionData(...): the copy exists once __post_init__ has
\* returned; a raise of __post_init__ leaves the function
NormalizeConstruct ==
    /\ result.op = "normalize_emission_units"
    /\ result.pc = "for"
    /\ result.i <= Len(emissions)
    /\ LET emission == emissions[result.i]
           exc == PostInit(EmissionData(emission))
       IN  result' =
             IF exc # "none"
             THEN [op |-> result.op, raised |-> exc, pc |-> "raised",
                   target_unit |-> result.target_unit, i |-> result.i,
                   normalized_emissions |-> result.normalized_emissions]
             ELSE [op |-> result.op, raised |-> "none", pc |-> "constructed",
                   target_unit |-> result.target_unit, i |-> result.i,
                   normalized_emissions |-> result.normalized_emissions,
                   normalized |-> CopyOf(emission)]
    /\ UNCHANGED <<emissions, metrics, tax, df, data_type, row_i, stdout>>

\* normalized.co2_equivalent_tonnes *= conversion_factor when the unit asks
\* for it, then normalized_emissions.append(normalized)
NormalizeConvert ==
    /\ result.op = "normalize_emission_units"
    /\ result.pc = "constructed"
    /\ LET normalized ==
               IF NeedsConversion(result.target_unit, emissions[result.i])
               THEN [result.normalized EXCEPT !.co2_equivalent_tonnes =
                         RatMul(@, KgConversionFactor)]
               ELSE result.normalized
       IN  result' = [op |-> result.op, raised |-> "none", pc |-> "for",
                      target_unit |-> result.target_unit, i |-> result.i + 1,
                      normalized_emissions |->
                          Append(result.normalized_emissions, normalized)]
    /\ UNCHANGED <<emissions, metrics, tax, df, data_type, row_i, stdout>>

\* return normalized_emissions
NormalizeReturn ==
    /\ result.op = "normalize_emission_units"
    /\ result.pc = "for"
    /\ result.i > Len(emissions)
    /\ result' = [op |-> result.op, raised |-> "none", pc |-> "return",
                  target_unit |-> result.target_unit, i |-> result.i,
                  normalized_emissions |-> result.normalized_emissions,
                  value |-> result.normalized_emissions]
    /\ UNCHANGED <<emissions, metrics, tax, df, data_type, row_i, stdout>>

-----------------------------------------------------------------------------
(* Specification of the transformer: a list of records, normalized one     *)
(* record at a time                                                        *)

\* longest list handed to the transformer
MaxNormalized == 3

\* the activity units tried: kWh, kg, KG, kilograms
TransformerUnits ==
    {<<"k", "W", "h">>, <<"k", "g">>, <<"K", "G">>,
     <<"k", "i", "l", "o", "g", "r", "a", "m", "s">>}

\* records constructed before the call, at time 1
TransformerEmissions ==
    {EmissionData(a) @@ [created_at |-> 1] : a \in
        [source                 : {"fuel_combustion"},
         scope                  : {"scope_1"},
         co2_equivalent_tonnes  : {0, 50},
         reporting_period_start : {1},
         reporting_period_end   : {2},
         activity_data          : {300},
         activity_unit          : TransformerUnits,
         emission_factor        : {1},
         location               : {NoneStr},
         verified               : {FALSE}]}

InitTransformer ==
    /\ emissions \in SeqsUpTo(TransformerEmissions, MaxNormalized)
    /\ metrics = <<>>
    /\ tax = NoTax
    /\ df = NoFrame
    /\ data_type = "none"
    /\ row_i = 0
    /\ stdout = <<>>
    /\ result = NoResult

NextTransformer ==
    \/ \E target_unit \in {"tonnes", "kg"} : NormalizeEmissionUnits(target_unit)
    \/ NormalizeConstruct
    \/ NormalizeConvert
    \/ NormalizeReturn

SpecTransformer == InitTransformer /\ [][NextTransformer]_vars

-----------------------------------------------------------------------------
(* C12: emission records are immutable once constructed *)

\* a step of normalize_emission_units leaves the input list and its records
\* as they are, leaves the copies already in normalized_emissions as they
\* are, and puts the copy it has constructed into the list as constructed
C12_Step ==
    /\ emissions' = emissions
    /\ (result.op = "normalize_emission_units" /\ result'.op = result.op) =>
          /\ \A k \in 1..Len(result.normalized_emissions) :
                result'.normalized_emissions[k] = result.normalized_emissions[k]
          /\ result.pc = "constructed" =>
                result'.normalized_emissions[Len(result'.normalized_emissions)]
                    = result.normalized

\* C12: normalize_emission_units returns a new record per input record, in
\* the same order, changes no input record, and no record has a field
\* changed after its construction
C12_ImmutableRecords == [][C12_Step]_vars

\* what does hold: the list returned has one copy per input record, in the
\* order of the input, equal to it in every field but co2e
C12_OneCopyPerRecord ==
    (result.op = "normalize_emission_units" /\ result.pc = "return") =>
        /\ Len(result.value) = Len(emissions)
        /\ \A k \in 1..Len(emissions) :
              [result.value[k] EXCEPT !.co2_equivalent_tonnes = 0]
                  = [emissions[k] EXCEPT !.co2_equivalent_tonnes = 0]

-----------------------------------------------------------------------------
(* core/models.py: CarbonTaxData, the fields a caller can change *)

\* self.tax_rate_per_tonne = rate
SetTaxRate(rate) ==
    /\ tax' = [tax EXCEPT !.tax_rate_per_tonne = rate]
    /\ UNCHANGED <<emissions, metrics, df, data_type, row_i, stdout, result>>

\* self.emissions_covered.append(emission)
AppendCovered(emission) ==
    /\ Len(tax.emissions_covered) < MaxCovered
    /\ tax' = [tax EXCEPT !.emissions_covered = Append(@, emission)]
    /\ UNCHANGED <<emissions, metrics, df, data_type, row_i, stdout, result>>

\* self.emissions_covered.pop()
PopCovered ==
    /\ tax.emissions_covered # <<>>
    /\ tax' = [tax EXCEPT !.emissions_covered = SubSeq(@, 1, Len(@) - 1)]
    /\ UNCHANGED <<emissions, metrics, df, data_type, row_i, stdout, result>>

\* self.exemptions[name] = amount, and the same for credits and penalties
SetAmount(map, name, amount) ==
    /\ tax' = [tax EXCEPT ![map] =
                  [k \in DOMAIN @ \cup {name} |-> IF k = name THEN amount ELSE @[k]]]
    /\ UNCHANGED <<emissions, metrics, df, data_type, row_i, stdout, result>>

\* del self.exemptions[name], and the same for credits and penalties
DelAmount(map, name) ==
    /\ name \in DOMAIN tax[map]
    /\ tax' = [tax EXCEPT ![map] = [k \in DOMAIN @ \ {name} |-> @[k]]]
    /\ UNCHANGED <<emissions, metrics, df, data_type, row_i, stdout, result>>

-----------------------------------------------------------------------------
(* Specification of a carbon tax computation that changes between reads *)

\* the entries set in the maps
TaxAmounts ==
    {<<"exemptions", "renewable_credit", 500>>,
     <<"credits", "offset_purchases", 300>>,
     <<"penalties", "late_filing", 100>>}

InitTaxChanges ==
    /\ emissions = <<>>
    /\ metrics = <<>>
    /\ tax = [NoTax EXCEPT !.tax_rate_per_tonne = 25]
    /\ df = NoFrame
    /\ data_type = "none"
    /\ row_i = 0
    /\ stdout = <<>>
    /\ result = NoResult

NextTaxChanges ==
    \/ \E rate \in {0, 25} : SetTaxRate(rate)
    \/ \E emission \in {e \in TaxEmissions : e.co2_equivalent_tonnes > 0} :
          AppendCovered(emission)
    \/ PopCovered
    \/ \E a \in TaxAmounts : SetAmount(a[1], a[2], a[3])
    \/ \E a \in TaxAmounts : DelAmount(a[1], a[2])
    \/ ReadTotalEmissions
    \/ ReadGrossTaxLiability
    \/ ReadNetTaxLiability

SpecTaxChanges == InitTaxChanges /\ [][NextTaxChanges]_vars

-----------------------------------------------------------------------------
(* C13: derived tax values are never stale *)

\* the formula of each derived value, on the fields of t
C13_Formula(t, op) ==
    LET total == C2_SumTo(t.emissions_covered, Len(t.emissions_covered))
        gross == total * t.tax_rate_per_tonne
    IN  CASE op = "total_emissions_tonnes" -> total
          [] op = "gross_tax_liability"    -> gross
          [] op = "net_tax_liability"      ->
                gross - C2_MapSum(t.exemptions) - C2_MapSum(t.credits)
                      + C2_MapSum(t.penalties)

C13_Reads == {"total_emissions_tonnes", "gross_tax_liability", "net_tax_liability"}

\* a read: the result is new, the object is left as it is, and the value is
\* the formula on the object's fields at this read
C13_Step ==
    (result' # result /\ result'.op \in C13_Reads) =>
        /\ tax' = tax
        /\ result'.self = tax
        /\ result'.value = C13_Formula(tax, result'.op)

\* C13: whatever changes were made to the covered emissions, the rate and
\* the maps, each read of total_emissions_tonnes, gross_tax_liability and
\* net_tax_liability is the formula on the values current at the read
C13_NeverStale == [][C13_Step]_vars

\* the liability was read as 1250, then an exemption was set and a record
\* added, and the next read gives 3250
C13_Witness ==
    /\ result.op = "net_tax_liability"
    /\ result.value = 3250
    /\ result.self = tax
    /\ Len(tax.emissions_covered) = 2
    /\ tax.exemptions = [renewable_credit |-> 500]
    /\ tax.credits = <<>>

-----------------------------------------------------------------------------
(* C14: headers without any name of a required field *)

C14_MetricRequired ==
    {"category", "metric_name", "metric_value", "metric_unit",
     "reporting_period_start", "reporting_period_end"}

\* none of the candidate names of some required field is among the headers
C14_MissingRequired ==
    \/ /\ data_type = "emissions"
       /\ ~(C5_Required \subseteq DOMAIN ActualColumns(EmissionColumnMapping, df.columns))
    \/ /\ data_type = "metrics"
       /\ ~(C14_MetricRequired \subseteq DOMAIN ActualColumns(MetricColumnMapping, df.columns))

\* the import has returned from a table with a required field missing
C14_Returned ==
    /\ result.op = "import_from_csv"
    /\ data_type \in {"emissions", "metrics"}
    /\ C14_MissingRequired

\* the part on the returned value: nothing is raised and no record is made
C14_NoRecords ==
    C14_Returned => (result.raised = "none" /\ result.value = <<>>)

\* C14: with a required field missing from the headers the import returns
\* without raising, with zero records, and every row is recorded as skipped
\* with its row index
C14_SkippedWithIndex ==
    C14_Returned =>
        /\ result.raised = "none"
        /\ result.value = <<>>
        /\ \A i \in 0..(Len(df.rows) - 1) :
              \E k \in 1..Len(stdout) : stdout[k].row = Some(i)

-----------------------------------------------------------------------------
(* core/models.py: OrganizationProfile *)

\* a value given for a date field: a date (its day number), or a value that
\* is no date
DateArg(day) == [isDate |-> TRUE, day |-> day]

NotADate == [isDate |-> FALSE, day |-> 0]

\* @validator('reporting_year'): the error raised, or "none"
validate_reporting_year(v, current_year) ==
    IF v < 1990 \/ v > current_year + 1 THEN "ValueError" ELSE "none"

\* a mutant: a fiscal year that ends on the day it starts is accepted
ValidateFiscalYearSameDay(v, values) ==
    IF "fiscal_year_start" \in DOMAIN values /\ v < values["fiscal_year_start"]
    THEN "ValueError" ELSE "none"

\* @validator('fiscal_year_end'): values holds the fields validated before
\* this one
validate_fiscal_year(v, values) ==
    IF "fiscal_year_start" \in DOMAIN values /\ v <= values["fiscal_year_start"]
    THEN "ValueError" ELSE "none"

\* the fields in their order of declaration: a field that fails is left out
\* of values, every failure is collected, and the construction raises when
\* there is one
OrganizationProfileErrors(a, current_year) ==
    LET values == IF a.fiscal_year_start.isDate
                  THEN [f \in {"fiscal_year_start"} |-> a.fiscal_year_start.day]
                  ELSE <<>>
    IN  (IF validate_reporting_year(a.reporting_year, current_year) # "none"
         THEN {"reporting_year"} ELSE {})
        \cup (IF ~a.fiscal_year_start.isDate THEN {"fiscal_year_start"} ELSE {})
        \cup (IF ~a.fiscal_year_end.isDate
                \/ validate_fiscal_year(a.fiscal_year_end.day, values) # "none"
              THEN {"fiscal_year_end"} ELSE {})

\* OrganizationProfile(...) in a year current_year
NewOrganizationProfile(a, current_year) ==
    /\ LET errors == OrganizationProfileErrors(a, current_year)
       IN  result' = [op |-> "OrganizationProfile",
                      raised |-> IF errors = {} THEN "none" ELSE "ValidationError",
                      errors |-> errors, args |-> a, current_year |-> current_year]
    /\ UNCHANGED <<emissions, metrics, tax, df, data_type, row_i, stdout>>

-----------------------------------------------------------------------------
(* Specification of the construction of organization profiles *)

\* the years in which profiles are constructed
ProfileYears == {2025, 2026}

\* the arguments tried: reporting years around both limits, fiscal years
\* that end before, on and after their start
ProfileArgs ==
    [reporting_year    : {1989, 1990, 1991} \cup {y + k : y \in ProfileYears, k \in 0..2},
     fiscal_year_start : {DateArg(d) : d \in 1..3} \cup {NotADate},
     fiscal_year_end   : {DateArg(d) : d \in 1..3}]

InitProfile ==
    /\ emissions = <<>>
    /\ metrics = <<>>
    /\ tax = NoTax
    /\ df = NoFrame
    /\ data_type = "none"
    /\ row_i = 0
    /\ stdout = <<>>
    /\ result = NoResult

NextProfile ==
    \E a \in ProfileArgs, current_year \in ProfileYears :
        NewOrganizationProfile(a, current_year)

SpecProfile == InitProfile /\ [][NextProfile]_vars

-----------------------------------------------------------------------------
(* C15: the reporting year and the fiscal year of an OrganizationProfile *)

\* C15: with dates for both ends of the fiscal year, the construction fails
\* exactly when reporting_year < 1990, or reporting_year > current_year + 1,
\* or fiscal_year_end is on or before fiscal_year_start
C15_ProfileValidation ==
    (result.op = "OrganizationProfile" /\ result.args.fiscal_year_start.isDate) =>
        LET a == result.args
        IN  (result.raised # "none")
                <=> \/ a.reporting_year < 1990
                    \/ a.reporting_year > result.current_year + 1
                    \/ a.fiscal_year_end.day <= a.fiscal_year_start.day

\* a reporting year at its upper limit, and a fiscal year that ends on the
\* day it starts: the construction fails on the fiscal year alone
C15_Witness ==
    /\ result.op = "OrganizationProfile"
    /\ result.args.reporting_year = result.current_year + 1
    /\ result.args.fiscal_year_start = DateArg(2)
    /\ result.args.fiscal_year_end = DateArg(2)
    /\ result.raised = "ValidationError"
    /\ result.errors = {"fiscal_year_end"}

-----------------------------------------------------------------------------
(* utils/calculations.py: SustainabilityAnalyzer.calculate_category_performance *)

\* round(x, 2): the nearest multiple of 1/100, an exact tie to the even one
Round2(x) ==
    LET t == x.n * 100
        q == t \div x.d
        r == t % x.d
    IN  IF 2 * r < x.d THEN Rat(q, 100)
        ELSE IF 2 * r > x.d THEN Rat(q + 1, 100)
        ELSE IF q % 2 = 0 THEN Rat(q, 100) ELSE Rat(q + 1, 100)

\* [m.progress_to_target for m in category_metrics
\*  if m.progress_to_target is not None]
RECURSIVE ProgressValues(_)
ProgressValues(category_metrics) ==
    IF category_metrics = <<>> THEN <<>>
    ELSE LET p == progress_to_target(Head(category_metrics))
         IN  (IF p.isNone THEN <<>> ELSE <<p.v>>)
                 \o ProgressValues(Tail(category_metrics))

RECURSIVE RatSum(_)
RatSum(xs) == IF xs = <<>> THEN RatInt(0) ELSE RatAdd(Head(xs), RatSum(Tail(xs)))

\* np.mean(xs) of a list that is not empty
Mean(xs) == RatDiv(RatSum(xs), RatInt(Len(xs)))

\* the entry of one category
CategoryPerformance(ms, category) ==
    LET category_metrics == CategoryMetrics(ms, category)
        progress_values  == ProgressValues(category_metrics)
        avg_progress     == IF progress_values # <<>> THEN Some(Mean(progress_values))
                            ELSE NoneNum
        verified_count   == Len(SelectSeq(category_metrics, LAMBDA m : m.verified))
    IN  IF category_metrics = <<>>
        THEN [metrics_count    |-> 0,
              average_progress |-> NoneNum,
              targets_met      |-> 0,
              verified_metrics |-> 0]
        ELSE [metrics_count      |-> Len(category_metrics),
              \* "if avg_progress": None and 0.0 are falsy
              average_progress   |-> IF ~avg_progress.isNone /\ avg_progress.v.n # 0
                                     THEN Some(Round2(avg_progress.v)) ELSE NoneNum,
              targets_met        |-> Len(SelectSeq(progress_values,
                                         LAMBDA p : RatLe(RatInt(100), p))),
              total_with_targets |-> Len(progress_values),
              verified_metrics   |-> verified_count,
              verification_rate  |-> Round1(Rat(verified_count * 100,
                                                Len(category_metrics)))]

calculate_category_performance(ms) ==
    [category \in Range(SustainabilityCategory) |-> CategoryPerformance(ms, category)]

-----------------------------------------------------------------------------
(* utils/calculations.py: SustainabilityAnalyzer.generate_recommendations *)

\* a recommendation: its text, and what the text shows of a count, of a
\* category, and of a progress with one decimal ("{p:.1f}%")
Recommendation(text, count, category, progress) ==
    [text |-> text, count |-> count, category |-> category, progress |-> progress]

\* len([g for g in gaps if text in g['issues']])
GapsWith(gaps, text) ==
    Len(SelectSeq(gaps, LAMBDA g : \E k \in 1..Len(g.issues) : g.issues[k].text = text))

\* min(category_counts, key=category_counts.get): the first category, in the
\* order of the dict, with the least count
MinCategory(category_counts) ==
    LET i == CHOOSE i \in 1..Len(SustainabilityCategory) :
                 /\ \A j \in 1..Len(SustainabilityCategory) :
                       category_counts[SustainabilityCategory[i]]
                           <= category_counts[SustainabilityCategory[j]]
                 /\ \A j \in 1..(i - 1) :
                       category_counts[SustainabilityCategory[j]]
                           > category_counts[SustainabilityCategory[i]]
    IN  SustainabilityCategory[i]

\* max(category_counts, key=category_counts.get): the first with the most
MaxCategory(category_counts) ==
    LET i == CHOOSE i \in 1..Len(SustainabilityCategory) :
                 /\ \A j \in 1..Len(SustainabilityCategory) :
                       category_counts[SustainabilityCategory[i]]
                           >= category_counts[SustainabilityCategory[j]]
                 /\ \A j \in 1..(i - 1) :
                       category_counts[SustainabilityCategory[j]]
                           < category_counts[SustainabilityCategory[i]]
    IN  SustainabilityCategory[i]

\* the loop over category_performance.items(), from the i-th category on
RECURSIVE PerformanceRecommendations(_, _)
PerformanceRecommendations(category_performance, i) ==
    IF i > Len(SustainabilityCategory) THEN <<>>
    ELSE LET category == SustainabilityCategory[i]
             average  == category_performance[category].average_progress
         IN  (IF ~average.isNone /\ average.v.n # 0 /\ RatLt(average.v, RatInt(70))
              THEN <<Recommendation("Focus on improving performance", 0,
                                    category, Some(Round1(average.v)))>>
              ELSE <<>>)
             \o PerformanceRecommendations(category_performance, i + 1)

\* a mutant: the balance is recommended from twice the least count on
RecommendationsFromTwice(ms) ==
    LET gaps                    == identify_performance_gaps(ms)
        metrics_without_targets == GapsWith(gaps, "No target value set")
        unverified_metrics      == GapsWith(gaps, "Data not verified")
        category_performance    == calculate_category_performance(ms)
        category_counts         == [cat \in DOMAIN category_performance |->
                                       category_performance[cat].metrics_count]
        min_category            == MinCategory(category_counts)
        max_category            == MaxCategory(category_counts)
    IN  (IF metrics_without_targets > 0
         THEN <<Recommendation("Set targets for metrics",
                               metrics_without_targets, "", NoneNum)>>
         ELSE <<>>)
        \o (IF unverified_metrics > 0
            THEN <<Recommendation("Implement verification processes for metrics",
                                  unverified_metrics, "", NoneNum)>>
            ELSE <<>>)
        \o (IF category_counts[max_category] >= category_counts[min_category] * 2
            THEN <<Recommendation("Consider adding more metrics", 0,
                                  min_category, NoneNum)>>
            ELSE <<>>)
        \o PerformanceRecommendations(category_performance, 1)

generate_recommendations(ms) ==
    LET gaps                    == identify_performance_gaps(ms)
        metrics_without_targets == GapsWith(gaps, "No target value set")
        unverified_metrics      == GapsWith(gaps, "Data not verified")
        category_performance    == calculate_category_performance(ms)
        category_counts         == [cat \in DOMAIN category_performance |->
                                       category_performance[cat].metrics_count]
        min_category            == MinCategory(category_counts)
        max_category            == MaxCategory(category_counts)
    IN  (IF metrics_without_targets > 0
         THEN <<Recommendation("Set targets for metrics",
                               metrics_without_targets, "", NoneNum)>>
         ELSE <<>>)
        \o (IF unverified_metrics > 0
            THEN <<Recommendation("Implement verification processes for metrics",
                                  unverified_metrics, "", NoneNum)>>
            ELSE <<>>)
        \o (IF category_counts[max_category] > category_counts[min_category] * 2
            THEN <<Recommendation("Consider adding more metrics", 0,
                                  min_category, NoneNum)>>
            ELSE <<>>)
        \o PerformanceRecommendations(category_performance, 1)

-----------------------------------------------------------------------------
(* Specification of repeated calls: a set of records, and the validator's,
   the calculator's and the analyzer's functions called on it in any order *)

\* a call has returned or raised: again tells that the call before it was
\* the same call, with the same arguments
Called(op, args, raised, value) ==
    /\ result' = [op |-> op, args |-> args, raised |-> raised, value |-> value,
                  again |-> (result.op = op /\ result.args = args)]
    /\ UNCHANGED <<emissions, metrics, tax, df, data_type, row_i, stdout>>

CallValidateEmissionsData ==
    LET out == validate_emissions_data(emissions)
    IN  Called("validate_emissions_data", <<>>, out.raised, out.value)

CallValidateMetricsData ==
    LET out == validate_metrics_data(metrics)
    IN  Called("validate_metrics_data", <<>>, out.raised, out.value)

CallCheckDataCompleteness ==
    Called("check_data_completeness", <<>>, "none",
           check_data_completeness(emissions, metrics))

CallCalculateScopeTotals ==
    Called("calculate_scope_totals", <<>>, "none", calculate_scope_totals(emissions))

CallCalculateSourceTotals ==
    Called("calculate_source_totals", <<>>, "none", calculate_source_totals(emissions))

CallCalculateEmissionIntensity(revenue, employees, production_units) ==
    Called("calculate_emission_intensity", <<revenue, employees, production_units>>,
           "none",
           calculate_emission_intensity(emissions, revenue, employees, production_units))

CallCalculateEsgScore ==
    Called("calculate_esg_score", <<>>, "none", calculate_esg_score(metrics))

CallIdentifyPerformanceGaps ==
    Called("identify_performance_gaps", <<>>, "none", identify_performance_gaps(metrics))

CallGenerateRecommendations ==
    Called("generate_recommendations", <<>>, "none", generate_recommendations(metrics))

MaxCore == 2

\* a record whose co2e is activity x factor, one whose co2e is not, and one
\* without activity
CoreEmissions ==
    {EmissionData([source |-> "electricity", scope |-> "scope_2",
                   co2_equivalent_tonnes |-> 22,
                   reporting_period_start |-> 1, reporting_period_end |-> 2,
                   activity_data |-> 11, activity_unit |-> <<"k", "W", "h">>,
                   emission_factor |-> 2, location |-> Some(<<"H", "Q">>),
                   verified |-> TRUE]),
     EmissionData([source |-> "fuel_combustion", scope |-> "scope_1",
                   co2_equivalent_tonnes |-> 50,
                   reporting_period_start |-> 1, reporting_period_end |-> 2,
                   activity_data |-> 11, activity_unit |-> <<"k", "g">>,
                   emission_factor |-> 1, location |-> NoneStr,
                   verified |-> FALSE]),
     EmissionData([source |-> "electricity", scope |-> "scope_2",
                   co2_equivalent_tonnes |-> 0,
                   reporting_period_start |-> 1, reporting_period_end |-> 2,
                   activity_data |-> 0, activity_unit |-> <<"k", "W", "h">>,
                   emission_factor |-> 1, location |-> NoneStr,
                   verified |-> FALSE])}

\* metrics at 25 and at 125 percent of their target, one without a target
\* and one whose value is a text
CoreMetrics ==
    {SustainabilityMetrics(
        [category |-> "environmental", metric_name |-> <<"E">>,
         metric_value |-> NumValue(Rat(1, 2)), metric_unit |-> <<"u">>,
         reporting_period_start |-> 1, reporting_period_end |-> 2,
         target_value |-> Some(RatInt(2)), description |-> Some(<<"d">>),
         verified |-> TRUE]),
     SustainabilityMetrics(
        [category |-> "environmental", metric_name |-> <<"E">>,
         metric_value |-> NumValue(Rat(5, 2)), metric_unit |-> <<"u">>,
         reporting_period_start |-> 1, reporting_period_end |-> 2,
         target_value |-> Some(RatInt(2)), description |-> NoneStr,
         verified |-> FALSE]),
     SustainabilityMetrics(
        [category |-> "social", metric_name |-> <<"E">>,
         metric_value |-> NumValue(RatInt(1)), metric_unit |-> <<>>,
         reporting_period_start |-> 1, reporting_period_end |-> 2,
         target_value |-> NoneNum, description |-> Some(<<"d">>),
         verified |-> FALSE]),
     SustainabilityMetrics(
        [category |-> "governance", metric_name |-> <<"E">>,
         metric_value |-> TextValue(<<"H", "i", "g", "h">>), metric_unit |-> <<"u">>,
         reporting_period_start |-> 1, reporting_period_end |-> 2,
         target_value |-> Some(RatInt(2)), description |-> Some(<<"d">>),
         verified |-> TRUE])}

\* revenue, employees and production_units of the calls
CoreDenominators ==
    {<<NoneNum, NoneNum, NoneNum>>,
     <<Some(RatInt(4)), Some(RatInt(0)), NoneNum>>,
     <<Some(RatInt(4)), Some(RatInt(4)), Some(RatInt(4))>>}

InitCore ==
    /\ emissions \in SeqsUpTo(CoreEmissions, MaxCore)
    /\ metrics \in SeqsUpTo(CoreMetrics, MaxCore)
    /\ tax = NoTax
    /\ df = NoFrame
    /\ data_type = "none"
    /\ row_i = 0
    /\ stdout = <<>>
    /\ result = NoResult

NextCore ==
    \/ CallValidateEmissionsData
    \/ CallValidateMetricsData
    \/ CallCheckDataCompleteness
    \/ CallCalculateScopeTotals
    \/ CallCalculateSourceTotals
    \/ \E d \in CoreDenominators : CallCalculateEmissionIntensity(d[1], d[2], d[3])
    \/ CallCalculateEsgScore
    \/ CallIdentifyPerformanceGaps
    \/ CallGenerateRecommendations

SpecCore == InitCore /\ [][NextCore]_vars

-----------------------------------------------------------------------------
(* C11: calling twice gives the same, and the records are left as they are *)

C11_Functions ==
    {"validate_emissions_data", "validate_metrics_data", "check_data_completeness",
     "calculate_scope_totals", "calculate_source_totals",
     "calculate_emission_intensity", "calculate_esg_score",
     "identify_performance_gaps", "generate_recommendations"}

\* a call of one of the functions: the lists and their records are as before
\* it, and a call that repeats the call before it ends as that one did
C11_Step ==
    result'.op \in C11_Functions =>
        /\ emissions' = emissions
        /\ metrics' = metrics
        /\ result'.again =>
              /\ result'.raised = result.raised
              /\ result'.value = result.value

-----------------------------------------------------------------------------
(* C21: the reporting period of a SustainabilityMetrics record *)

\* C21: every SustainabilityMetrics record that exists starts strictly before
\* it ends
C21_MetricPeriodOrdered ==
    \A i \in 1..Len(metrics) :
        metrics[i].reporting_period_start < metrics[i].reporting_period_end

-----------------------------------------------------------------------------
(* C22: the emission factor of an EmissionData record *)

\* C22: every EmissionData record that exists has emission_factor >= 0
C22_FactorNotNegative ==
    \A i \in 1..Len(emissions) : emissions[i].emission_factor >= 0

-----------------------------------------------------------------------------
(* Specification of the ESG score of metrics below, at and above their target *)

\* metrics at -50, 50 and 150 percent of a target of 2
ScoreMetrics ==
    {SustainabilityMetrics(
        [category               |-> category,
         metric_name            |-> <<"E">>,
         metric_value           |-> NumValue(RatInt(v)),
         metric_unit            |-> <<"u">>,
         reporting_period_start |-> 1,
         reporting_period_end   |-> 2,
         target_value           |-> Some(RatInt(2)),
         description            |-> NoneStr,
         verified               |-> verified]) :
        category \in Range(SustainabilityCategory), v \in {-1, 1, 3},
        verified \in BOOLEAN}

InitScores ==
    /\ emissions = <<>>
    /\ metrics \in SeqsUpTo(ScoreMetrics, MaxMetrics)
    /\ tax = NoTax
    /\ df = NoFrame
    /\ data_type = "none"
    /\ row_i = 0
    /\ stdout = <<>>
    /\ result = NoResult

NextScores == CalculateEsgScore

SpecScores == InitScores /\ [][NextScores]_vars

-----------------------------------------------------------------------------
(* C23: the scale of the ESG scores *)

\* C23: each of the four values returned by calculate_esg_score lies
\* between 0 and 100 inclusive
C23_ScoresInScale ==
    result.op = "calculate_esg_score" =>
        \A k \in DOMAIN result.value :
            /\ RatLe(RatInt(0), result.value[k])
            /\ RatLe(result.value[k], RatInt(100))

-----------------------------------------------------------------------------
(* data/processors.py: the step "Find actual column names" of
   _process_emissions_dataframe and of _process_metrics_dataframe *)

FindActualColumns ==
    /\ data_type \in {"emissions", "metrics"}
    /\ result' = [op |-> "actual_columns", raised |-> "none",
                  value |-> ActualColumns(IF data_type = "emissions"
                                          THEN EmissionColumnMapping
                                          ELSE MetricColumnMapping, df.columns)]
    /\ UNCHANGED <<emissions, metrics, tax, df, data_type, row_i, stdout>>

-----------------------------------------------------------------------------
(* Specification of the column resolution: a table's headers, resolved *)

\* headers that are candidates in different places of their lists, in
\* different cases, and one that is a candidate of no field
ColumnHeaders ==
    {"scope", "Scope", "SCOPE", "emission_scope", "co2e", "CO2e", "unit",
     "Unit", "source", "value", "remarks"}

InitColumns ==
    /\ emissions = <<>>
    /\ metrics = <<>>
    /\ tax = NoTax
    /\ data_type \in {"emissions", "metrics"}
    /\ \E columns \in SUBSET ColumnHeaders : df = Frame(columns, <<>>)
    /\ row_i = 0
    /\ stdout = <<>>
    /\ result = NoResult

NextColumns == FindActualColumns

SpecColumns == InitColumns /\ [][NextColumns]_vars

-----------------------------------------------------------------------------
(* C24: column resolution *)

C24_Mapping == IF data_type = "emissions" THEN EmissionColumnMapping ELSE MetricColumnMapping

\* C24: a field is mapped exactly when one of its candidates is a header,
\* letter for letter, and then to the candidate before which no candidate is
\* a header; a field without such a candidate has no entry at all
C24_ColumnResolution ==
    result.op = "actual_columns" =>
        \A field \in DOMAIN C24_Mapping :
            LET candidates == C24_Mapping[field]
                present    == {i \in 1..Len(candidates) : candidates[i] \in df.columns}
            IN  IF present = {}
                THEN field \notin DOMAIN result.value
                ELSE /\ field \in DOMAIN result.value
                     /\ \E i \in present :
                           /\ result.value[field] = candidates[i]
                           /\ \A j \in 1..(i - 1) : j \notin present

\* "scope" wins over "Scope" and "emission_scope", "SCOPE" is no candidate,
\* the only co2e header is the last candidate, and the source has no entry
C24_Witness ==
    /\ result.op = "actual_columns"
    /\ data_type = "emissions"
    /\ df.columns = {"scope", "Scope", "SCOPE", "emission_scope", "CO2e", "Unit", "remarks"}
    /\ result.value["scope"] = "scope"
    /\ result.value["co2_equivalent_tonnes"] = "CO2e"
    /\ result.value["activity_unit"] = "Unit"
    /\ DOMAIN result.value = {"scope", "co2_equivalent_tonnes", "activity_unit"}

-----------------------------------------------------------------------------
(* Specification of the import of free texts for source, scope and category *)

MaxTokens == 2

\* texts in other cases, texts that several members match, texts that are
\* part of a value, and texts that no member matches
TokenRows ==
    {EmissionBaseRow}
    \cup {[EmissionBaseRow EXCEPT !.Source = c] :
            c \in {TextCell(<<"x", "y", "z">>), TextCell(<<"e">>), NanCell,
                   TextCell(<<"W", "A", "T", "E", "R">>),
                   TextCell(<<"W", "a", "s", "t", "e", " ", "W", "a", "t", "e", "r">>)}}
    \cup {[EmissionBaseRow EXCEPT !.scope = c] :
            c \in {TextCell(<<"S", "c", "o", "p", "e", " ", "3">>), TextCell(<<"3">>),
                   TextCell(<<"s", "c", "o", "p", "e">>)}}

TokenMetricRows ==
    {[MetricBaseRow EXCEPT !.category = c] :
        c \in {TextCell(<<"S", "o", "c", "i", "a", "l">>), TextCell(<<"x", "y", "z">>),
               TextCell(<<"G", "o", "v">>), NanCell, TextCell(<<>>)}}

InitTokens ==
    /\ emissions = <<>>
    /\ metrics = <<>>
    /\ tax = NoTax
    /\ \/ /\ data_type = "emissions"
          /\ \E rows \in SeqsUpTo(TokenRows, MaxTokens) :
                df = Frame(EmissionHeaders, rows)
       \/ /\ data_type = "metrics"
          /\ \E rows \in SeqsUpTo(TokenMetricRows, MaxTokens) :
                df = Frame(MetricHeaders, rows)
    /\ row_i = 0
    /\ stdout = <<>>
    /\ result = NoResult

NextTokens ==
    \/ ProcessEmissionsRow
    \/ ProcessMetricsRow
    \/ ImportFromCsvReturn

SpecTokens == InitTokens /\ [][NextTokens]_vars

-----------------------------------------------------------------------------
(* C25: resolution of a source, scope or category text to its enumeration *)

\* member i matches the lower-cased token: one is a substring of the other
C25_Matches(members, i, token) ==
    \/ IsSubstring(Chars[members[i]], Lower(token))
    \/ IsSubstring(Lower(token), Chars[members[i]])

C25_NoMatch(members, token) ==
    \A i \in 1..Len(members) : ~C25_Matches(members, i, token)

\* m is the first declared member that matches
C25_IsFirst(members, token, m) ==
    \E i \in 1..Len(members) :
        /\ members[i] = m
        /\ C25_Matches(members, i, token)
        /\ \A j \in 1..(i - 1) : ~C25_Matches(members, j, token)

\* the text of the row now read, under the header of the field
C25_Token(header) == StrOf(df.rows[row_i + 1][header])

\* the turn of the loop for one row whose enumeration columns are there
C25_Step ==
    /\ (row_i' = row_i + 1 /\ data_type = "emissions"
            /\ {"Source", "scope"} \subseteq df.columns) =>
          /\ (C25_NoMatch(EmissionSource, C25_Token("Source"))
                \/ C25_NoMatch(EmissionScope, C25_Token("scope")))
                => emissions' = emissions
          /\ emissions' # emissions =>
                /\ stdout' = stdout
                /\ C25_IsFirst(EmissionSource, C25_Token("Source"),
                               emissions'[Len(emissions')].source)
                /\ C25_IsFirst(EmissionScope, C25_Token("scope"),
                               emissions'[Len(emissions')].scope)
    /\ (row_i' = row_i + 1 /\ data_type = "metrics") =>
          /\ C25_NoMatch(SustainabilityCategory, C25_Token("category"))
                => metrics' = metrics
          /\ metrics' # metrics =>
                /\ stdout' = stdout
                /\ C25_IsFirst(SustainabilityCategory, C25_Token("category"),
                               metrics'[Len(metrics')].category)

\* C25: the lower-cased text resolves to the first declared member whose
\* value is a substring of it or of which it is a substring; a row with a
\* text that no member matches leaves no record, and a row that leaves a
\* record prints nothing
C25_EnumResolution == [][C25_Step]_vars

\* the rows read so far: "Waste Water", which has the values of two sources
\* in it, gave a record of the one declared first, "scope" one of the first
\* scope, and the category "nan" one of governance
C25_Witness ==
    /\ data_type = "emissions"
    /\ row_i = 2
    /\ df.rows[1]["Source"] =
          TextCell(<<"W", "a", "s", "t", "e", " ", "W", "a", "t", "e", "r">>)
    /\ df.rows[2]["scope"] = TextCell(<<"s", "c", "o", "p", "e">>)
    /\ Len(emissions) = 2
    /\ emissions[1].source = "waste"
    /\ emissions[2].scope = "scope_1"
    /\ stdout = <<>>

\* the text of a missing category is "nan", which is part of "governance",
\* and the empty text is part of every value
C25_WitnessMetrics ==
    /\ data_type = "metrics"
    /\ row_i = 2
    /\ df.rows[1]["category"] = NanCell
    /\ df.rows[2]["category"] = TextCell(<<>>)
    /\ Len(metrics) = 2
    /\ metrics[1].category = "governance"
    /\ metrics[2].category = "environmental"

-----------------------------------------------------------------------------
(* C26: the consistency check of validate_emissions_data *)

C26_Expected(e) == e.activity_data * e.emission_factor

\* |co2e - expected| relative to expected is more than 5 percent
C26_OutOfTolerance(e) ==
    RatLt(Rat(5, 100), Rat(Abs(e.co2_equivalent_tonnes - C26_Expected(e)), C26_Expected(e)))

C26_Inconsistent(xs, i) ==
    \E k \in 1..Len(xs) :
        xs[k] = [record |-> i, issue |-> "CO2e calculation may be inconsistent"]

\* the warning of each record with a product other than 0 is there exactly
\* when the record is out of tolerance, and among the warnings only
C26_Emitted ==
    \A i \in 1..Len(emissions) :
        C26_Expected(emissions[i]) # 0 =>
            /\ C26_Inconsistent(result.value.warnings, i)
                  <=> C26_OutOfTolerance(emissions[i])
            /\ ~C26_Inconsistent(result.value.errors, i)

\* C26: for every record whose product activity_data * emission_factor is
\* not 0, validate_emissions_data gives the consistency warning exactly when
\* the record is more than 5 percent off, and as a warning, never an error
C26_ConsistencyWarning ==
    result.op = "validate_emissions_data" => C26_Emitted

\* the same for the batches in which no record has a product of 0
C26_WithoutZeroProduct ==
    (result.op = "validate_emissions_data"
        /\ \A i \in 1..Len(emissions) : C26_Expected(emissions[i]) # 0) => C26_Emitted

-----------------------------------------------------------------------------
(* Specification of the recommendations: a list of metrics, and the call *)

GenerateRecommendations ==
    /\ result' = [op |-> "generate_recommendations", raised |-> "none",
                  value |-> generate_recommendations(metrics)]
    /\ UNCHANGED <<emissions, metrics, tax, df, data_type, row_i, stdout>>

\* a verified metric with a description
RecommendationMetric(category, value, target) ==
    SustainabilityMetrics(
        [category               |-> category,
         metric_name            |-> <<"E">>,
         metric_value           |-> NumValue(value),
         metric_unit            |-> <<"u">>,
         reporting_period_start |-> 1,
         reporting_period_end   |-> 2,
         target_value           |-> target,
         description            |-> Some(<<"d">>),
         verified               |-> TRUE])

\* metrics at -50, 0, 50, 70 and 75 percent of their target, and without one
FocusMetrics ==
    {RecommendationMetric(category, value, Some(RatInt(2))) :
        category \in Range(SustainabilityCategory),
        value \in {RatInt(-1), RatInt(0), RatInt(1), Rat(7, 5), Rat(3, 2)}}
    \cup {RecommendationMetric(category, RatInt(1), NoneNum) :
            category \in Range(SustainabilityCategory)}

\* one metric of each category, all at 100 percent
BalanceMetrics ==
    {RecommendationMetric(category, RatInt(2), Some(RatInt(2))) :
        category \in Range(SustainabilityCategory)}

MaxFocus == 2

MaxBalance == 5

InitRecommendations ==
    /\ emissions = <<>>
    /\ \/ metrics \in SeqsUpTo(FocusMetrics, MaxFocus)
       \/ metrics \in SeqsUpTo(BalanceMetrics, MaxBalance)
    /\ tax = NoTax
    /\ df = NoFrame
    /\ data_type = "none"
    /\ row_i = 0
    /\ stdout = <<>>
    /\ result = NoResult

NextRecommendations == GenerateRecommendations

SpecRecommendations == InitRecommendations /\ [][NextRecommendations]_vars

-----------------------------------------------------------------------------
(* C27: the recommendation to focus on a category *)

\* the metrics of category c that have a progress
C27_WithProgress(c) ==
    {i \in 1..Len(metrics) :
        /\ metrics[i].category = c
        /\ metrics[i].metric_value.kind = "num"
        /\ ~metrics[i].target_value.isNone
        /\ metrics[i].target_value.v.n # 0}

C27_Progress(i) ==
    Rat(100 * metrics[i].metric_value.num.n * metrics[i].target_value.v.d,
        metrics[i].metric_value.num.d * metrics[i].target_value.v.n)

RECURSIVE C27_Sum(_)
C27_Sum(I) ==
    IF I = {} THEN RatInt(0)
    ELSE LET i == CHOOSE x \in I : TRUE
         IN  RatAdd(C27_Progress(i), C27_Sum(I \ {i}))

\* the average progress of category c is defined and below 70
C27_Below70(c) ==
    /\ C27_WithProgress(c) # {}
    /\ RatLt(C27_Sum(C27_WithProgress(c)),
             RatInt(70 * Cardinality(C27_WithProgress(c))))

C27_Focus(c) ==
    \E k \in 1..Len(result.value) :
        /\ result.value[k].text = "Focus on improving performance"
        /\ result.value[k].category = c

\* C27: a category gets the recommendation to focus on it exactly when its
\* average progress is defined and below 70, an average of 0 or less included
C27_FocusBelow70 ==
    result.op = "generate_recommendations" =>
        \A c \in Range(SustainabilityCategory) : C27_Focus(c) <=> C27_Below70(c)

\* the same for the categories whose average is not 0
C27_FocusBelow70NotZero ==
    result.op = "generate_recommendations" =>
        \A c \in Range(SustainabilityCategory) :
            C27_Sum(C27_WithProgress(c)).n # 0 => (C27_Focus(c) <=> C27_Below70(c))

-----------------------------------------------------------------------------
(* C28: the recommendation to balance the categories *)

C28_Count(c) == Cardinality({i \in 1..Len(metrics) : metrics[i].category = c})

C28_Balance ==
    {k \in 1..Len(result.value) : result.value[k].text = "Consider adding more metrics"}

\* C28: the balance is recommended exactly when the largest count of a
\* category is more than twice the smallest, and names a category with the
\* smallest count
C28_BalanceRecommendation ==
    result.op = "generate_recommendations" =>
        LET cs == Range(SustainabilityCategory)
        IN  /\ C28_Balance # {}
                  <=> \E big, small \in cs :
                         /\ \A c \in cs : C28_Count(c) <= C28_Count(big)
                         /\ \A c \in cs : C28_Count(small) <= C28_Count(c)
                         /\ C28_Count(big) > 2 * C28_Count(small)
            /\ Cardinality(C28_Balance) <= 1
            /\ \A k \in C28_Balance :
                  \A c \in cs : C28_Count(result.value[k].category) <= C28_Count(c)
            /\ metrics = <<>> => C28_Balance = {}
            /\ (\E c, d \in cs : C28_Count(c) = 0 /\ C28_Count(d) > 0) => C28_Balance # {}

\* three environmental metrics, one social and one of governance: 3 > 2 x 1,
\* and the first category with one metric is named
C28_Witness ==
    /\ result.op = "generate_recommendations"
    /\ Len(metrics) = 5
    /\ C28_Count("environmental") = 3
    /\ C28_Count("social") = 1
    /\ \E k \in C28_Balance : result.value[k].category = "social"

\* two environmental metrics, one social and one of governance: 2 = 2 x 1
C28_WitnessAtTwice ==
    /\ result.op = "generate_recommendations"
    /\ C28_Count("environmental") = 2
    /\ C28_Count("social") = 1
    /\ C28_Count("governance") = 1
    /\ C28_Balance = {}

-----------------------------------------------------------------------------
(* C29: the validator against the construction of EmissionData *)

\* co2e = 0 or start = end: what construction accepts and the validator does not
C29_AtTheLimit(e) ==
    \/ e.co2_equivalent_tonnes = 0
    \/ e.reporting_period_start = e.reporting_period_end

\* the records counted as valid are among those that __post_init__ accepts
\* and that are not at the limit; a batch of records at the limit, each
\* accepted by __post_init__, is given a report with a score of 0
C29_Stricter ==
    /\ result.value.valid_records
          <= Cardinality({i \in 1..Len(emissions) :
                            /\ PostInit(emissions[i]) = "none"
                            /\ ~C29_AtTheLimit(emissions[i])})
    /\ (\A i \in 1..Len(emissions) : C29_AtTheLimit(emissions[i])) =>
          /\ \A i \in 1..Len(emissions) : PostInit(emissions[i]) = "none"
          /\ result.raised = "none"
          /\ result.value.valid_records = 0
          /\ result.value.data_quality_score = RatInt(0)

\* C29: every record validate_emissions_data counts as valid satisfies the
\* invariants of construction, and a batch made only of records with
\* co2e = 0 or start = end, which construction accepts, has a
\* data_quality_score of 0
C29_StricterThanConstruction ==
    (result.op = "validate_emissions_data" /\ emissions # <<>>) => C29_Stricter

\* the same for the batches in which no record has a product of 0
C29_WithoutZeroProduct ==
    (result.op = "validate_emissions_data" /\ emissions # <<>>
        /\ \A i \in 1..Len(emissions) :
              emissions[i].activity_data * emissions[i].emission_factor # 0)
        => C29_Stricter

-----------------------------------------------------------------------------
(* C30: what normalize_emission_units returns for the target unit tonnes *)

\* the unit has a k followed by a g, in either case
C30_HasKg(unit) ==
    \E i \in 1..(Len(unit) - 1) :
        /\ unit[i] \in {"k", "K"}
        /\ unit[i + 1] \in {"g", "G"}

\* C30: with target unit tonnes the list returned has, for each input
\* record, a copy whose co2e is the input's times 0.001 exactly when the
\* activity unit contains kg in either case, and the input's otherwise;
\* every other field, created_at included, is the input's, and every copy
\* satisfies the invariants of construction
C30_NormalizedToTonnes ==
    (result.op = "normalize_emission_units" /\ result.pc = "return"
        /\ result.target_unit = "tonnes") =>
        /\ Len(result.value) = Len(emissions)
        /\ \A k \in 1..Len(emissions) :
              LET in  == emissions[k]
                  out == result.value[k]
              IN  /\ out.co2_equivalent_tonnes =
                        IF C30_HasKg(in.activity_unit)
                        THEN Rat(in.co2_equivalent_tonnes, 1000)
                        ELSE RatInt(in.co2_equivalent_tonnes)
                  /\ DOMAIN out = DOMAIN in
                  /\ \A f \in DOMAIN in \ {"co2_equivalent_tonnes"} : out[f] = in[f]
                  /\ out.reporting_period_start <= out.reporting_period_end
                  /\ out.co2_equivalent_tonnes.n >= 0
                  /\ out.activity_data >= 0

\* 50 in KG comes back as 0.05, 50 in kWh and 50 in kilograms as 50
C30_Witness ==
    /\ result.op = "normalize_emission_units"
    /\ result.pc = "return"
    /\ result.target_unit = "tonnes"
    /\ Len(emissions) = 3
    /\ emissions[1].activity_unit = <<"K", "G">>
    /\ emissions[2].activity_unit = <<"k", "W", "h">>
    /\ emissions[3].activity_unit = <<"k", "i", "l", "o", "g", "r", "a", "m", "s">>
    /\ result.value[1].co2_equivalent_tonnes = Rat(5, 100)
    /\ result.value[2].co2_equivalent_tonnes = RatInt(50)
    /\ result.value[3].co2_equivalent_tonnes = RatInt(50)
    /\ result.value[1].created_at = emissions[1].created_at

=============================================================================
